---- MODULE Spec2Model ----
(***************************************************************************)
(* Void Executor: a custodial vault that pools native currency in a vault  *)
(* PDA, keeps each user's claim as an encrypted handle, and releases funds *)
(* by direct withdrawal or by a delegated "intent" execution.              *)
(*                                                                         *)
(* Three deployments are modelled, selected by `variant`:                  *)
(*   "native"  server/programs/anonymaus-executor/src/lib.rs               *)
(*   "anchor"  anonymous-executor-anchor/.../src/lib.rs (plaintext u64)    *)
(*   "backup"  anonymous-executor-anchor/.../src/lib-inco-backup.rs        *)
(*                                                                         *)
(* Every handler is an operator from (accounts, inputs) to an outcome      *)
(* record [res, lamports, data, owned, effects]: the result code, the      *)
(* account state as the handler left it when it returned, and the ordered  *)
(* list of ledger / coprocessor / record-write effects it issued.  The     *)
(* ledger host commits an outcome only when res = "Ok" (an instruction     *)
(* that returns an error is rolled back as a whole).                       *)
(***************************************************************************)
EXTENDS Integers, Sequences, FiniteSets, TLC

VARIABLES variant, ebool, lamports, data, owned, dst, packed, counter, increments

vars == <<variant, ebool, lamports, data, owned, dst, packed, counter, increments>>

(***************************************************************************)
(* Bounds of the model.                                                    *)
(***************************************************************************)
\* lamports every wallet holds initially
StartLamports == 3
\* largest plaintext amount / ciphertext value a caller supplies
MaxAmount == 1
\* largest decoded balance the coprocessor is driven to
MaxBalance == 2

(***************************************************************************)
(* Identities.  A Pubkey is abstracted to <<first byte, rest>>; the first  *)
(* byte is kept because deposit() inspects byte 0 of the stored owner.     *)
(***************************************************************************)
DefaultKey == <<0, 0>>

Wallets == {<<0, 1>>, <<1, 1>>}

FirstByte(k) == k[1]

\* Pubkey::find_program_address(seeds, program_id): one address per seed list
ExecutorPda == [seed |-> "executor", key |-> DefaultKey]

VaultPda == [seed |-> "vault", key |-> DefaultKey]

UserDepositPda(u) == [seed |-> "user_deposit", key |-> u]

WalletAddr(k) == [seed |-> "wallet", key |-> k]

Addrs ==
    {ExecutorPda, VaultPda}
        \cup {UserDepositPda(u) : u \in Wallets}
        \cup {WalletAddr(k) : k \in Wallets}

Variants == {"native", "anchor", "backup"}

(***************************************************************************)
(* Ledger host: rent, account creation, transfers.                         *)
(***************************************************************************)
\* Rent::minimum_balance(size), scaled: grows with the allocated size
RentExempt(size) == 1 + size \div 128

NoData == [len |-> 0]

World == [lamports |-> lamports, data |-> data, owned |-> owned, effects |-> <<>>]

Outcome(res, w) ==
    [res |-> res, lamports |-> w.lamports, data |-> w.data,
     owned |-> w.owned, effects |-> w.effects]

Effect(w, op, acct) == [w EXCEPT !.effects = Append(@, [op |-> op, acct |-> acct])]

\* system_instruction::create_account(payer, new, lamports, space, program_id)
\* `zero` is the record that `space` zero bytes decode to.
SysCreateAccount(w, payer, new, lam, zero) ==
    IF w.lamports[new] > 0 \/ w.data[new].len > 0 \/ new \in w.owned
    THEN [ok |-> FALSE, err |-> "AccountAlreadyInUse", w |-> w]
    ELSE IF w.lamports[payer] < lam
    THEN [ok |-> FALSE, err |-> "SystemInsufficientFunds", w |-> w]
    ELSE [ok |-> TRUE, err |-> "Ok",
          w |-> Effect([w EXCEPT !.lamports[payer] = @ - lam,
                                 !.lamports[new] = @ + lam,
                                 !.data[new] = zero,
                                 !.owned = @ \cup {new}],
                       "create_account", new)]

\* system_instruction::transfer(from, to, amount)
SysTransfer(w, from, to, amount) ==
    IF w.lamports[from] < amount
    THEN [ok |-> FALSE, err |-> "SystemInsufficientFunds", w |-> w]
    ELSE [ok |-> TRUE, err |-> "Ok",
          w |-> Effect([w EXCEPT !.lamports =
                           [a \in Addrs |->
                               IF a = from /\ a = to THEN w.lamports[a]
                               ELSE IF a = from THEN w.lamports[a] - amount
                               ELSE IF a = to THEN w.lamports[a] + amount
                               ELSE w.lamports[a]]],
                       "transfer", to)]

(***************************************************************************)
(* Account codec of the native program (Pack for Executor / UserDeposit).  *)
(* Account data is kept decoded: `len` is the byte length of the buffer,   *)
(* the other fields are what the fixed layout holds.                       *)
(***************************************************************************)
ExecutorLEN == 65

UserDepositLEN == 48

ZeroExecutor ==
    [len |-> ExecutorLEN, execution_account |-> DefaultKey,
     authority |-> DefaultKey, is_initialized |-> 0]

ZeroUserDeposit == [len |-> UserDepositLEN, user |-> DefaultKey, balance |-> 0]

\* Executor::pack_into_slice: silently returns when the buffer is too short
ExecutorPack(w, acct, execution_account, authority) ==
    IF w.data[acct].len < ExecutorLEN
    THEN w
    ELSE Effect([w EXCEPT !.data[acct] =
                    [len |-> w.data[acct].len,
                     execution_account |-> execution_account,
                     authority |-> authority,
                     is_initialized |-> 1]],
                "write_record", acct)

\* Executor::unpack = Pack::unpack: exact length, then is_initialized()
ExecutorUnpack(d) ==
    IF d.len # ExecutorLEN
    THEN [ok |-> FALSE, err |-> "InvalidAccountData"]
    ELSE IF d.is_initialized # 1
    THEN [ok |-> FALSE, err |-> "UninitializedAccount"]
    ELSE [ok |-> TRUE, err |-> "Ok", execution_account |-> d.execution_account,
          authority |-> d.authority]

\* UserDeposit::pack_into_slice
UserDepositPack(w, acct, user, balance) ==
    IF w.data[acct].len < UserDepositLEN
    THEN w
    ELSE Effect([w EXCEPT !.data[acct] =
                    [len |-> w.data[acct].len, user |-> user, balance |-> balance]],
                "write_record", acct)

\* is_initialized judged by a balance above the encryption of zero alone
UserDepositIsInitialized_balance_only(d) == d.balance > 1

\* UserDeposit::is_initialized
UserDepositIsInitialized(d) == d.balance > 0 \/ d.user # DefaultKey

\* UserDeposit::unpack = Pack::unpack: exact length, then is_initialized()
UserDepositUnpack(d) ==
    IF d.len # UserDepositLEN
    THEN [ok |-> FALSE, err |-> "InvalidAccountData"]
    ELSE IF ~UserDepositIsInitialized(d)
    THEN [ok |-> FALSE, err |-> "UninitializedAccount"]
    ELSE [ok |-> TRUE, err |-> "Ok", user |-> d.user, balance |-> d.balance]

(***************************************************************************)
(* The same codec on bytes (pack_into_slice / unpack_from_slice).  A       *)
(* buffer is a sequence of bytes, first byte at index 1.  A Pubkey <<a, b>>*)
(* is the 32 bytes a, 0, ..., 0, b.  Integers wider than the checker's are *)
(* read and written one byte at a time, so a value is limited only by what *)
(* the callers store.  `dst` is the buffer last packed into and `packed`   *)
(* the value that was packed.                                              *)
(***************************************************************************)
RECURSIVE to_le_bytes(_, _)
\* the n little-endian bytes of v
to_le_bytes(v, n) ==
    IF n = 0 THEN <<>> ELSE <<v % 256>> \o to_le_bytes(v \div 256, n - 1)

RECURSIVE from_le_bytes(_)
from_le_bytes(bytes) ==
    IF bytes = <<>> THEN 0 ELSE Head(bytes) + 256 * from_le_bytes(Tail(bytes))

\* Pubkey::as_ref
PubkeyBytes(k) == <<k[1]>> \o [i \in 1..30 |-> 0] \o <<k[2]>>

\* Pubkey::new_from_array
PubkeyFromArray(bytes) == <<bytes[1], bytes[32]>>

\* dst[a..b].copy_from_slice(src), Rust's half-open range on a 0-based slice
CopyFromSlice(buf, a, b, src) ==
    [i \in 1..Len(buf) |-> IF i > a /\ i <= b THEN src[i - a] ELSE buf[i]]

\* &src[a..b]
Slice(buf, a, b) == SubSeq(buf, a + 1, b)

NoRecord == [kind |-> "none"]

\* Executor::pack_into_slice
Executor_pack_into_slice(self, buf) ==
    IF Len(buf) < ExecutorLEN
    THEN buf
    ELSE LET b1 == CopyFromSlice(buf, 0, 32, PubkeyBytes(self.execution_account))
             b2 == CopyFromSlice(b1, 32, 64, PubkeyBytes(self.authority))
         IN [b2 EXCEPT ![65] = IF self.is_initialized THEN 1 ELSE 0]

\* Executor::unpack_from_slice
Executor_unpack_from_slice(src) ==
    IF Len(src) < ExecutorLEN
    THEN [res |-> "InvalidAccountData"]
    ELSE [res |-> "Ok",
          v |-> [execution_account |-> PubkeyFromArray(Slice(src, 0, 32)),
                 authority |-> PubkeyFromArray(Slice(src, 32, 64)),
                 is_initialized |-> (src[65] = 1)]]

\* UserDeposit::pack_into_slice
UserDeposit_pack_into_slice(self, buf) ==
    IF Len(buf) < UserDepositLEN
    THEN buf
    ELSE CopyFromSlice(CopyFromSlice(buf, 0, 32, PubkeyBytes(self.user)),
                       32, 48, to_le_bytes(self.balance, 16))

\* UserDeposit::unpack_from_slice reading the balance ahead of the owner
UserDeposit_unpack_from_slice_balance_first(src) ==
    IF Len(src) < UserDepositLEN
    THEN [res |-> "InvalidAccountData"]
    ELSE [res |-> "Ok",
          v |-> [user |-> PubkeyFromArray(Slice(src, 16, 48)),
                 balance |-> from_le_bytes(Slice(src, 0, 16))]]

\* UserDeposit::unpack_from_slice
UserDeposit_unpack_from_slice(src) ==
    IF Len(src) < UserDepositLEN
    THEN [res |-> "InvalidAccountData"]
    ELSE [res |-> "Ok",
          v |-> [user |-> PubkeyFromArray(Slice(src, 0, 32)),
                 balance |-> from_le_bytes(Slice(src, 32, 48))]]

(***************************************************************************)
(* Confidential Arithmetic Adapter.  The coprocessor is external: a handle *)
(* is an opaque non-zero u128 standing for a plaintext the program never   *)
(* sees.  IncoHandle / IncoDecode are the coprocessor's (trusted oracle's) *)
(* view.  Each call is one round trip whose reply is read back by          *)
(* inco_return_u128; `reply` names the call site whose return data is      *)
(* absent (len -1) or short.                                               *)
(*                                                                         *)
(* What the coprocessor puts in the 16 return bytes of a comparison is not *)
(* decided by this repository, so it is a choice (`ebool`) fixed per       *)
(* deployment: "flag", a plain 0 / 1, which is what the native program's   *)
(* `== 0` tests presuppose; or "handle", the handle of an encrypted        *)
(* boolean, which is what lib-inco-backup.rs receives from the same e_ge   *)
(* (`let sufficient: Ebool = e_ge(..)`) and can only feed to e_select.     *)
(***************************************************************************)
IncoHandle(v) == v + 1

IncoDecode(h) == IF h = 0 THEN 0 ELSE h - 1

EboolModes == {"flag", "handle"}

EboolReply(b) == IF ebool = "flag" THEN b ELSE IncoHandle(b)

NoFailure == [failAt |-> 0, len |-> 16]

IncoReplies ==
    {NoFailure} \cup {[failAt |-> i, len |-> 8] : i \in 1..5}
        \cup {[failAt |-> 1, len |-> -1]}

\* inco_return_u128 reading absent or short return data as zero
inco_return_u128_zero_fill(reply, site, value) ==
    IF reply.failAt = site /\ reply.len < 16
    THEN [ok |-> TRUE, err |-> "Ok", v |-> 0]
    ELSE [ok |-> TRUE, err |-> "Ok", v |-> value]

\* inco_return_u128: None or fewer than 16 bytes is an error
inco_return_u128(reply, site, value) ==
    IF reply.failAt = site /\ reply.len < 16
    THEN [ok |-> FALSE, err |-> "InvalidAccountData", v |-> 0]
    ELSE [ok |-> TRUE, err |-> "Ok", v |-> value]

inco_new_euint128(reply, site, ciphertext) ==
    inco_return_u128(reply, site, IncoHandle(ciphertext))

inco_as_euint128(reply, site, value) ==
    inco_return_u128(reply, site, IncoHandle(value))

inco_e_add(reply, site, lhs, rhs) ==
    inco_return_u128(reply, site, IncoHandle(IncoDecode(lhs) + IncoDecode(rhs)))

\* the coprocessor wraps on underflow; the width is scaled to the model
inco_e_sub(reply, site, lhs, rhs) ==
    inco_return_u128(reply, site,
        IncoHandle((IncoDecode(lhs) - IncoDecode(rhs)) % (MaxBalance + 2)))

inco_e_ge(reply, site, lhs, rhs) ==
    inco_return_u128(reply, site,
        EboolReply(IF IncoDecode(lhs) >= IncoDecode(rhs) THEN 1 ELSE 0))

inco_e_eq(reply, site, lhs, rhs) ==
    inco_return_u128(reply, site,
        EboolReply(IF IncoDecode(lhs) = IncoDecode(rhs) THEN 1 ELSE 0))

(***************************************************************************)
(* Native program: initialize                                              *)
(***************************************************************************)
initialize(w, executor_account, authority, is_signer, execution_account) ==
    IF executor_account # ExecutorPda
    THEN Outcome("InvalidAccountData", w)
    ELSE IF ~is_signer
    THEN Outcome("MissingRequiredSignature", w)
    ELSE
      LET c == IF w.lamports[executor_account] = 0
               THEN SysCreateAccount(w, WalletAddr(authority), executor_account,
                                     RentExempt(ExecutorLEN), ZeroExecutor)
               ELSE [ok |-> TRUE, err |-> "Ok", w |-> w]
      IN IF ~c.ok
         THEN Outcome(c.err, c.w)
         ELSE Outcome("Ok", ExecutorPack(c.w, executor_account,
                                         execution_account, authority))

(***************************************************************************)
(* Native program: deposit                                                 *)
(***************************************************************************)
\* deposit_update persisting the record before the coprocessor adds
deposit_update_write_first(w, user, user_deposit_account, ciphertext, reply) ==
    LET d == w.data[user_deposit_account] IN
    IF d.len < UserDepositLEN
    THEN Outcome("InvalidAccountData", w)
    ELSE
      LET is_uninitialized == FirstByte(d.user) = 0
          u == IF is_uninitialized
               THEN [ok |-> TRUE, err |-> "Ok", user |-> user, balance |-> 0]
               ELSE UserDepositUnpack(d)
      IN
      IF ~u.ok
      THEN Outcome(u.err, w)
      ELSE
        LET z  == IF u.balance = 0
                  THEN inco_as_euint128(reply, 1, 0)
                  ELSE [ok |-> TRUE, err |-> "Ok", v |-> u.balance]
            w1 == IF u.balance = 0 THEN Effect(w, "inco", "as_euint128") ELSE w
            owner == IF u.balance = 0 THEN user ELSE u.user
        IN
        IF ~z.ok
        THEN Outcome(z.err, w1)
        ELSE
          LET e  == inco_new_euint128(reply, 2, ciphertext)
              w2 == Effect(w1, "inco", "new_euint128")
          IN
          IF ~e.ok
          THEN Outcome(e.err, w2)
          ELSE
            LET s  == inco_e_add(reply, 3, z.v, e.v)
                w3 == UserDepositPack(w2, user_deposit_account, owner, s.v)
            IN
            IF ~s.ok
            THEN Outcome(s.err, Effect(w2, "inco", "e_add"))
            ELSE Outcome("Ok", Effect(w3, "inco", "e_add"))

\* lines 461-495: load or start the record, add the ciphertext, store
deposit_update(w, user, user_deposit_account, ciphertext, reply) ==
    LET d == w.data[user_deposit_account] IN
    IF d.len < UserDepositLEN
    THEN Outcome("InvalidAccountData", w)
    ELSE
      LET is_uninitialized == FirstByte(d.user) = 0
          u == IF is_uninitialized
               THEN [ok |-> TRUE, err |-> "Ok", user |-> user, balance |-> 0]
               ELSE UserDepositUnpack(d)
      IN
      IF ~u.ok
      THEN Outcome(u.err, w)
      ELSE
        LET z  == IF u.balance = 0
                  THEN inco_as_euint128(reply, 1, 0)
                  ELSE [ok |-> TRUE, err |-> "Ok", v |-> u.balance]
            w1 == IF u.balance = 0 THEN Effect(w, "inco", "as_euint128") ELSE w
            owner == IF u.balance = 0 THEN user ELSE u.user
        IN
        IF ~z.ok
        THEN Outcome(z.err, w1)
        ELSE
          LET e  == inco_new_euint128(reply, 2, ciphertext)
              w2 == Effect(w1, "inco", "new_euint128")
          IN
          IF ~e.ok
          THEN Outcome(e.err, w2)
          ELSE
            LET s  == inco_e_add(reply, 3, z.v, e.v)
                w3 == Effect(w2, "inco", "e_add")
            IN
            IF ~s.ok
            THEN Outcome(s.err, w3)
            ELSE Outcome("Ok", UserDepositPack(w3, user_deposit_account, owner, s.v))

\* deposit_accounts without the vault PDA comparison
deposit_accounts_any_vault(vault_account, user, is_signer, user_deposit_account) ==
    IF ~is_signer
    THEN "MissingRequiredSignature"
    ELSE IF user_deposit_account # UserDepositPda(user)
    THEN "InvalidAccountData"
    ELSE "Ok"

\* deposit_accounts without the participant-record PDA comparison
deposit_accounts_any_record(vault_account, user, is_signer, user_deposit_account) ==
    IF ~is_signer
    THEN "MissingRequiredSignature"
    ELSE IF vault_account # VaultPda
    THEN "InvalidAccountData"
    ELSE "Ok"

\* lines 329-352: signer and PDA checks
deposit_accounts(vault_account, user, is_signer, user_deposit_account) ==
    IF ~is_signer
    THEN "MissingRequiredSignature"
    ELSE IF vault_account # VaultPda
    THEN "InvalidAccountData"
    ELSE IF user_deposit_account # UserDepositPda(user)
    THEN "InvalidAccountData"
    ELSE "Ok"

\* deposit_fund with the transfer skipped on the call that creates the vault
deposit_fund_no_first_transfer(w, vault_account, user, amount) ==
    IF w.lamports[vault_account] = 0
    THEN SysCreateAccount(w, WalletAddr(user), vault_account, RentExempt(0), NoData)
    ELSE SysTransfer(w, WalletAddr(user), vault_account, amount)

\* lines 376-423: create the vault if it has no lamports, then transfer
deposit_fund(w, vault_account, user, amount) ==
    LET cv == IF w.lamports[vault_account] = 0
              THEN SysCreateAccount(w, WalletAddr(user), vault_account,
                                    RentExempt(0), NoData)
              ELSE [ok |-> TRUE, err |-> "Ok", w |-> w]
    IN
    IF ~cv.ok
    THEN cv
    ELSE SysTransfer(cv.w, WalletAddr(user), vault_account, amount)

deposit(w, vault_account, user, is_signer, user_deposit_account, amount, ciphertext, reply) ==
    LET a == deposit_accounts(vault_account, user, is_signer, user_deposit_account) IN
    IF a # "Ok"
    THEN Outcome(a, w)
    ELSE IF amount = 0
    THEN Outcome("InvalidArgument", w)
    ELSE
      LET t == deposit_fund(w, vault_account, user, amount) IN
      IF ~t.ok
      THEN Outcome(t.err, t.w)
      ELSE
        LET cu == IF t.w.lamports[user_deposit_account] = 0
                  THEN SysCreateAccount(t.w, WalletAddr(user), user_deposit_account,
                                        RentExempt(UserDepositLEN), ZeroUserDeposit)
                  ELSE [ok |-> TRUE, err |-> "Ok", w |-> t.w]
        IN
        IF ~cu.ok
        THEN Outcome(cu.err, cu.w)
        ELSE deposit_update(cu.w, user, user_deposit_account, ciphertext, reply)

(***************************************************************************)
(* Direct lamport movement out of the vault (`**lamports -= amount`,       *)
(* `**lamports += amount`).  The host rejects an instruction that debits   *)
(* an account the program does not own; a debit larger than the balance    *)
(* overflows the u64 subtraction (abort, or a wrapped value the host's     *)
(* balance check rejects), reported here as "LamportUnderflow".            *)
(***************************************************************************)
MoveOut(w, vault_account, to, amount) ==
    IF w.lamports[vault_account] < amount
    THEN [ok |-> FALSE, err |-> "LamportUnderflow", w |-> w]
    ELSE IF amount > 0 /\ vault_account \notin w.owned
    THEN [ok |-> FALSE, err |-> "ExternalAccountLamportSpend", w |-> w]
    ELSE [ok |-> TRUE, err |-> "Ok",
          w |-> Effect(Effect([w EXCEPT !.lamports =
                                 [a \in Addrs |->
                                     IF a = vault_account /\ a = to THEN w.lamports[a]
                                     ELSE IF a = vault_account THEN w.lamports[a] - amount
                                     ELSE IF a = to THEN w.lamports[a] + amount
                                     ELSE w.lamports[a]]],
                              "debit", vault_account),
                       "credit", to)]

(***************************************************************************)
(* Native program: withdraw                                                *)
(***************************************************************************)
\* withdraw_accounts without the is_signer test
withdraw_accounts_unsigned(vault_account, user, is_signer, user_deposit_account) ==
    IF vault_account # VaultPda
    THEN "InvalidAccountData"
    ELSE IF user_deposit_account # UserDepositPda(user)
    THEN "InvalidAccountData"
    ELSE "Ok"

\* lines 523-546: signer and PDA checks
withdraw_accounts(vault_account, user, is_signer, user_deposit_account) ==
    IF ~is_signer
    THEN "MissingRequiredSignature"
    ELSE IF vault_account # VaultPda
    THEN "InvalidAccountData"
    ELSE IF user_deposit_account # UserDepositPda(user)
    THEN "InvalidAccountData"
    ELSE "Ok"

\* withdraw paying out before the record is persisted
withdraw_move_first(w, vault_account, user, is_signer, user_deposit_account, amount, reply) ==
    LET a == withdraw_accounts(vault_account, user, is_signer, user_deposit_account) IN
    IF a # "Ok"
    THEN Outcome(a, w)
    ELSE
      LET u == UserDepositUnpack(w.data[user_deposit_account]) IN
      IF ~u.ok
      THEN Outcome(u.err, w)
      ELSE IF u.user # user
      THEN Outcome("InvalidAccountData", w)
      ELSE
        LET ea == inco_as_euint128(reply, 1, amount)
            w1 == Effect(w, "inco", "as_euint128")
        IN
        IF ~ea.ok
        THEN Outcome(ea.err, w1)
        ELSE
          LET ge == inco_e_ge(reply, 2, u.balance, ea.v)
              w2 == Effect(w1, "inco", "e_ge")
          IN
          IF ~ge.ok
          THEN Outcome(ge.err, w2)
          ELSE IF ge.v = 0
          THEN Outcome("InsufficientFunds", w2)
          ELSE
            LET sb == inco_e_sub(reply, 3, u.balance, ea.v)
                w3 == Effect(w2, "inco", "e_sub")
            IN
            IF ~sb.ok
            THEN Outcome(sb.err, w3)
            ELSE
              LET m == MoveOut(w3, vault_account, WalletAddr(user), amount) IN
              IF ~m.ok
              THEN Outcome(m.err, m.w)
              ELSE Outcome("Ok", UserDepositPack(m.w, user_deposit_account, u.user, sb.v))

\* lines 548-583: parse, load the record, solvency check, deduct, pay out
withdraw(w, vault_account, user, is_signer, user_deposit_account, amount, reply) ==
    LET a == withdraw_accounts(vault_account, user, is_signer, user_deposit_account) IN
    IF a # "Ok"
    THEN Outcome(a, w)
    ELSE
      LET u == UserDepositUnpack(w.data[user_deposit_account]) IN
      IF ~u.ok
      THEN Outcome(u.err, w)
      ELSE IF u.user # user
      THEN Outcome("InvalidAccountData", w)
      ELSE
        LET ea == inco_as_euint128(reply, 1, amount)
            w1 == Effect(w, "inco", "as_euint128")
        IN
        IF ~ea.ok
        THEN Outcome(ea.err, w1)
        ELSE
          LET ge == inco_e_ge(reply, 2, u.balance, ea.v)
              w2 == Effect(w1, "inco", "e_ge")
          IN
          IF ~ge.ok
          THEN Outcome(ge.err, w2)
          ELSE IF ge.v = 0
          THEN Outcome("InsufficientFunds", w2)
          ELSE
            LET sb == inco_e_sub(reply, 3, u.balance, ea.v)
                w3 == Effect(w2, "inco", "e_sub")
            IN
            IF ~sb.ok
            THEN Outcome(sb.err, w3)
            ELSE
              LET w4 == UserDepositPack(w3, user_deposit_account, u.user, sb.v)
                  m  == MoveOut(w4, vault_account, WalletAddr(user), amount)
              IN Outcome(m.err, m.w)

(***************************************************************************)
(* Native program: execute_with_intent                                     *)
(***************************************************************************)
\* execute_settle without the amount == 0 test
execute_settle_no_zero_test(w, vault_account, user_deposit_account, u, execution_account, amount, ciphertext, reply) ==
    LET ea == inco_new_euint128(reply, 1, ciphertext)
        w1 == Effect(w, "inco", "new_euint128")
    IN
    IF ~ea.ok
    THEN Outcome(ea.err, w1)
    ELSE
      LET pa == inco_as_euint128(reply, 2, amount)
          w2 == Effect(w1, "inco", "as_euint128")
      IN
      IF ~pa.ok
      THEN Outcome(pa.err, w2)
      ELSE
        LET eq == inco_e_eq(reply, 3, ea.v, pa.v)
            w3 == Effect(w2, "inco", "e_eq")
        IN
        IF ~eq.ok
        THEN Outcome(eq.err, w3)
        ELSE IF eq.v = 0
        THEN Outcome("InvalidArgument", w3)
        ELSE
          LET ge == inco_e_ge(reply, 4, u.balance, ea.v)
              w4 == Effect(w3, "inco", "e_ge")
          IN
          IF ~ge.ok
          THEN Outcome(ge.err, w4)
          ELSE IF ge.v = 0
          THEN Outcome("InsufficientFunds", w4)
          ELSE
            LET sb == inco_e_sub(reply, 5, u.balance, ea.v)
                w5 == Effect(w4, "inco", "e_sub")
            IN
            IF ~sb.ok
            THEN Outcome(sb.err, w5)
            ELSE
              LET w6 == UserDepositPack(w5, user_deposit_account, u.user, sb.v)
                  m  == MoveOut(w6, vault_account, WalletAddr(execution_account), amount)
              IN Outcome(m.err, m.w)

\* lines 725-748: bind ciphertext to amount, solvency check, deduct, pay out
execute_settle(w, vault_account, user_deposit_account, u, execution_account, amount, ciphertext, reply) ==
    LET ea == inco_new_euint128(reply, 1, ciphertext)
        w1 == Effect(w, "inco", "new_euint128")
    IN
    IF ~ea.ok
    THEN Outcome(ea.err, w1)
    ELSE
      LET pa == inco_as_euint128(reply, 2, amount)
          w2 == Effect(w1, "inco", "as_euint128")
      IN
      IF ~pa.ok
      THEN Outcome(pa.err, w2)
      ELSE
        LET eq == inco_e_eq(reply, 3, ea.v, pa.v)
            w3 == Effect(w2, "inco", "e_eq")
        IN
        IF ~eq.ok
        THEN Outcome(eq.err, w3)
        ELSE IF eq.v = 0
        THEN Outcome("InvalidArgument", w3)
        ELSE
          LET ge == inco_e_ge(reply, 4, u.balance, ea.v)
              w4 == Effect(w3, "inco", "e_ge")
          IN
          IF ~ge.ok
          THEN Outcome(ge.err, w4)
          ELSE IF amount = 0 \/ ge.v = 0
          THEN Outcome("InsufficientFunds", w4)
          ELSE
            LET sb == inco_e_sub(reply, 5, u.balance, ea.v)
                w5 == Effect(w4, "inco", "e_sub")
            IN
            IF ~sb.ok
            THEN Outcome(sb.err, w5)
            ELSE
              LET w6 == UserDepositPack(w5, user_deposit_account, u.user, sb.v)
                  m  == MoveOut(w6, vault_account, WalletAddr(execution_account), amount)
              IN Outcome(m.err, m.w)

\* execute_accounts without the comparison with the configured receiver
execute_accounts_any_receiver(w, executor_account, vault_account, user_deposit_account, user, execution_account, is_signer) ==
    IF executor_account # ExecutorPda
    THEN "InvalidAccountData"
    ELSE
      LET x == ExecutorUnpack(w.data[executor_account]) IN
      IF ~x.ok
      THEN x.err
      ELSE IF ~is_signer
      THEN "MissingRequiredSignature"
      ELSE IF vault_account # VaultPda
      THEN "InvalidAccountData"
      ELSE IF user_deposit_account # UserDepositPda(user)
      THEN "InvalidAccountData"
      ELSE "Ok"

\* execute_accounts without the receiver's co-signature test
execute_accounts_no_cosign(w, executor_account, vault_account, user_deposit_account, user, execution_account, is_signer) ==
    IF executor_account # ExecutorPda
    THEN "InvalidAccountData"
    ELSE
      LET x == ExecutorUnpack(w.data[executor_account]) IN
      IF ~x.ok
      THEN x.err
      ELSE IF x.execution_account # execution_account
      THEN "InvalidAccountData"
      ELSE IF vault_account # VaultPda
      THEN "InvalidAccountData"
      ELSE IF user_deposit_account # UserDepositPda(user)
      THEN "InvalidAccountData"
      ELSE "Ok"

\* lines 624-661: configuration, receiver co-signature and PDA checks
execute_accounts(w, executor_account, vault_account, user_deposit_account, user, execution_account, is_signer) ==
    IF executor_account # ExecutorPda
    THEN "InvalidAccountData"
    ELSE
      LET x == ExecutorUnpack(w.data[executor_account]) IN
      IF ~x.ok
      THEN x.err
      ELSE IF x.execution_account # execution_account
      THEN "InvalidAccountData"
      ELSE IF ~is_signer
      THEN "MissingRequiredSignature"
      ELSE IF vault_account # VaultPda
      THEN "InvalidAccountData"
      ELSE IF user_deposit_account # UserDepositPda(user)
      THEN "InvalidAccountData"
      ELSE "Ok"

\* execute_with_intent recording the user it served in the configuration
execute_with_intent_marks_config(w, executor_account, vault_account, user_deposit_account, user, execution_account, is_signer, signature, amount, ciphertext, reply) ==
    LET a == execute_accounts(w, executor_account, vault_account,
                              user_deposit_account, user, execution_account,
                              is_signer)
    IN
    IF a # "Ok"
    THEN Outcome(a, w)
    ELSE IF Len(signature) = 0
    THEN Outcome("InvalidArgument", w)
    ELSE
      LET u == UserDepositUnpack(w.data[user_deposit_account]) IN
      IF ~u.ok
      THEN Outcome(u.err, w)
      ELSE IF u.user # user
      THEN Outcome("InvalidAccountData", w)
      ELSE execute_settle(ExecutorPack(w, executor_account, execution_account, user),
                          vault_account, user_deposit_account, u,
                          execution_account, amount, ciphertext, reply)

\* lines 607-756
execute_with_intent(w, executor_account, vault_account, user_deposit_account, user, execution_account, is_signer, signature, amount, ciphertext, reply) ==
    LET a == execute_accounts(w, executor_account, vault_account,
                              user_deposit_account, user, execution_account,
                              is_signer)
    IN
    IF a # "Ok"
    THEN Outcome(a, w)
    ELSE IF Len(signature) = 0
    THEN Outcome("InvalidArgument", w)
    ELSE
      LET u == UserDepositUnpack(w.data[user_deposit_account]) IN
      IF ~u.ok
      THEN Outcome(u.err, w)
      ELSE IF u.user # user
      THEN Outcome("InvalidAccountData", w)
      ELSE execute_settle(w, vault_account, user_deposit_account, u,
                          execution_account, amount, ciphertext, reply)

(***************************************************************************)
(* Instruction payloads of the native program.  A payload is kept decoded: *)
(* `len` is the byte length of the buffer handed to the handler (after the *)
(* tag byte), the other fields are what a well-formed layout holds.  Each  *)
(* handler validates its accounts first and parses the payload next.       *)
(***************************************************************************)
\* byte length of a ciphertext (scaled)
CiphertextBytes == 1

\* a buffer of n bytes with its last `cut` bytes missing
Truncate(n, cut) == IF cut > n THEN 0 ELSE n - cut

InitializeData(execution_account, cut) ==
    [len |-> Truncate(32, cut), execution_account |-> execution_account]

DepositData(amount, ciphertext, cut) ==
    [len |-> Truncate(8 + 4 + CiphertextBytes + 1, cut), amount |-> amount,
     ciphertext_len |-> CiphertextBytes, ciphertext |-> ciphertext]

WithdrawData(amount, cut) == [len |-> Truncate(8, cut), amount |-> amount]

ExecuteData(intent_hash, signature, amount, ciphertext, cut) ==
    [len |-> Truncate(32 + 4 + Len(signature) + 8 + 4 + CiphertextBytes + 1, cut),
     intent_hash |-> intent_hash, signature_len |-> Len(signature),
     signature |-> signature, amount |-> amount,
     ciphertext_len |-> CiphertextBytes, ciphertext |-> ciphertext]

\* lines 243-246
initialize_parse(d) == d.len >= 32

\* lines 355-366
deposit_parse(d) ==
    IF d.len < 13
    THEN FALSE
    ELSE d.len >= 12 + d.ciphertext_len + 1

\* lines 549-551
withdraw_parse(d) == d.len >= 8

\* lines 664-708
execute_parse(d) ==
    IF d.len < 36
    THEN FALSE
    ELSE IF d.len < 36 + d.signature_len + 8 + 4 + 1
    THEN FALSE
    ELSE d.len >= 36 + d.signature_len + 8 + 4 + d.ciphertext_len + 1

process_initialize(w, executor_account, authority, is_signer, d) ==
    IF executor_account = ExecutorPda /\ is_signer /\ ~initialize_parse(d)
    THEN Outcome("InvalidInstructionData", w)
    ELSE initialize(w, executor_account, authority, is_signer, d.execution_account)

process_deposit(w, vault_account, user, is_signer, user_deposit_account, d, reply) ==
    LET a == deposit_accounts(vault_account, user, is_signer, user_deposit_account) IN
    IF a = "Ok" /\ ~deposit_parse(d)
    THEN Outcome("InvalidInstructionData", w)
    ELSE deposit(w, vault_account, user, is_signer, user_deposit_account, d.amount, d.ciphertext, reply)

process_withdraw(w, vault_account, user, is_signer, user_deposit_account, d, reply) ==
    LET a == withdraw_accounts(vault_account, user, is_signer, user_deposit_account) IN
    IF a = "Ok" /\ ~withdraw_parse(d)
    THEN Outcome("InvalidInstructionData", w)
    ELSE withdraw(w, vault_account, user, is_signer, user_deposit_account, d.amount, reply)

process_execute_with_intent(w, executor_account, vault_account, user_deposit_account, user, execution_account, is_signer, d, reply) ==
    LET a == execute_accounts(w, executor_account, vault_account,
                              user_deposit_account, user, execution_account,
                              is_signer)
    IN
    IF a = "Ok" /\ ~execute_parse(d)
    THEN Outcome("InvalidInstructionData", w)
    ELSE execute_with_intent(w, executor_account, vault_account,
                             user_deposit_account, user, execution_account,
                             is_signer, d.signature, d.amount, d.ciphertext, reply)

(***************************************************************************)
(* Native program: entry point.  instruction_data is <<>> when empty,      *)
(* otherwise <<tag, rest>>: the first byte and the decoded remaining       *)
(* bytes.  `accounts` holds the accounts passed with the instruction and   *)
(* the coprocessor's replies to the calls the handler makes.               *)
(***************************************************************************)
INITIALIZE == 0

DEPOSIT == 1

WITHDRAW == 2

EXECUTE_WITH_INTENT == 3

\* process_instruction with the catch-all arm returning Ok
process_instruction_ignore_unknown(w, accounts, instruction_data) ==
    IF Len(instruction_data) = 0
    THEN Outcome("InvalidInstructionData", w)
    ELSE
      LET instruction == instruction_data[1]
          rest == instruction_data[2]
      IN
      CASE instruction = INITIALIZE ->
               process_initialize(w, accounts.executor, accounts.authority,
                                  accounts.is_signer, rest)
        [] instruction = DEPOSIT ->
               process_deposit(w, accounts.vault, accounts.user, accounts.is_signer,
                               accounts.user_deposit, rest, accounts.reply)
        [] instruction = WITHDRAW ->
               process_withdraw(w, accounts.vault, accounts.user, accounts.is_signer,
                                accounts.user_deposit, rest, accounts.reply)
        [] instruction = EXECUTE_WITH_INTENT ->
               process_execute_with_intent(w, accounts.executor, accounts.vault,
                   accounts.user_deposit, accounts.user, accounts.execution_account,
                   accounts.is_signer, rest, accounts.reply)
        [] OTHER -> Outcome("Ok", w)

\* lines 185-205
process_instruction(w, accounts, instruction_data) ==
    IF Len(instruction_data) = 0
    THEN Outcome("InvalidInstructionData", w)
    ELSE
      LET instruction == instruction_data[1]
          rest == instruction_data[2]
      IN
      CASE instruction = INITIALIZE ->
               process_initialize(w, accounts.executor, accounts.authority,
                                  accounts.is_signer, rest)
        [] instruction = DEPOSIT ->
               process_deposit(w, accounts.vault, accounts.user, accounts.is_signer,
                               accounts.user_deposit, rest, accounts.reply)
        [] instruction = WITHDRAW ->
               process_withdraw(w, accounts.vault, accounts.user, accounts.is_signer,
                                accounts.user_deposit, rest, accounts.reply)
        [] instruction = EXECUTE_WITH_INTENT ->
               process_execute_with_intent(w, accounts.executor, accounts.vault,
                   accounts.user_deposit, accounts.user, accounts.execution_account,
                   accounts.is_signer, rest, accounts.reply)
        [] OTHER -> Outcome("InvalidInstructionData", w)

(***************************************************************************)
(* Native program: program log.  Each msg! appends one line to the log of  *)
(* the transaction, which stays readable whether or not the instruction    *)
(* is committed.  A line is its format string and the values formatted     *)
(* into it.  The lines a handler emitted are read off the path it took:    *)
(* `w` is the accounts it started from, `o` its outcome.  The lines after  *)
(* the direct lamport moves are reached when the moves did not abort; a    *)
(* debit below zero aborts or wraps as the build decides, so the log of    *)
(* such a run is one of two, and each operator gives the set of the logs   *)
(* the run can leave.                                                      *)
(***************************************************************************)
Line(text, args) == [text |-> text, args |-> args]

Issued(o, op, acct) ==
    \E i \in 1..Len(o.effects) : o.effects[i].op = op /\ o.effects[i].acct = acct

\* the lines after `**lamports -= amount; **lamports += amount`
AfterMoves(o, lines) ==
    IF o.res \in {"Ok", "ExternalAccountLamportSpend"} THEN {lines}
    ELSE IF o.res = "LamportUnderflow" THEN {<<>>, lines}
    ELSE {<<>>}

\* lines 318, 388, 408, 432, 458, 465-469, 497
deposit_msgs(w, o, vault_account, user, is_signer, user_deposit_account, d) ==
    LET entered == /\ deposit_accounts(vault_account, user, is_signer,
                                       user_deposit_account) = "Ok"
                   /\ deposit_parse(d)
                   /\ d.amount # 0
        funded == entered /\ Issued(o, "transfer", vault_account)
        made == Issued(o, "create_account", user_deposit_account)
        vault_lines ==
            IF entered /\ w.lamports[vault_account] = 0
            THEN <<Line("Creating vault PDA account with {} lamports",
                        <<RentExempt(0)>>)>>
                 \o (IF Issued(o, "create_account", vault_account)
                     THEN <<Line("Vault PDA account created", <<>>)>> ELSE <<>>)
            ELSE <<>>
        record_lines ==
            IF funded /\ w.lamports[user_deposit_account] = 0
            THEN <<Line("Creating user deposit PDA account", <<>>)>>
                 \o (IF made
                     THEN <<Line("User deposit PDA account created", <<>>)>>
                     ELSE <<>>)
            ELSE <<>>
        size_lines ==
            IF /\ funded
               /\ w.lamports[user_deposit_account] > 0
               /\ w.data[user_deposit_account].len < UserDepositLEN
            THEN <<Line("User deposit account has invalid size: {} (expected {})",
                        <<w.data[user_deposit_account].len, UserDepositLEN>>)>>
            ELSE <<>>
        done_lines ==
            IF o.res = "Ok"
            THEN <<Line("Deposited {} lamports (encrypted balance updated)",
                        <<d.amount>>)>>
            ELSE <<>>
    IN {<<Line("Deposit SOL to vault (v2.1)", <<>>)>>
            \o vault_lines \o record_lines \o size_lines \o done_lines}

\* lines 515, 570, 583
withdraw_msgs(w, o, user_deposit_account, d) ==
    LET refused == IF o.res = "InsufficientFunds"
                   THEN <<Line("Insufficient encrypted balance", <<>>)>>
                   ELSE <<>>
        done == <<Line("Withdrew {} lamports (encrypted balance updated)",
                       <<d.amount>>)>>
    IN {<<Line("Withdraw SOL from vault", <<>>)>> \o refused \o tail :
            tail \in AfterMoves(o, done)}

\* lines 612, 750-753; user_deposit.balance is the value packed at line 745
execute_with_intent_msgs(w, o, user_deposit_account, user, d) ==
    LET done == <<Line("Intent executed for user: {}", <<user>>),
                  Line("Intent hash: {:?}", <<d.intent_hash>>),
                  Line("Transferred {} lamports to execution account",
                       <<d.amount>>),
                  Line("User balance: {} lamports",
                       <<o.data[user_deposit_account].balance>>)>>
    IN {<<Line("Execute with intent", <<>>)>> \o tail : tail \in AfterMoves(o, done)}

(***************************************************************************)
(* Anchor variants: account constraints shared by lib.rs and               *)
(* lib-inco-backup.rs.  Anchor validates the accounts struct before the    *)
(* handler body runs and serialises Account<T> fields back only when the   *)
(* handler returns Ok.                                                     *)
(***************************************************************************)
AnchorExecutorSpace == 8 + ExecutorLEN

AnchorUserDepositSpace == IF variant = "backup" THEN 8 + 32 + 200 ELSE 8 + 32 + 8

AnchorZeroExecutor ==
    [len |-> AnchorExecutorSpace, execution_account |-> DefaultKey,
     authority |-> DefaultKey, bump |-> 0]

AnchorZeroUserDeposit ==
    [len |-> AnchorUserDepositSpace, user |-> DefaultKey, balance |-> 0]

\* #[account(init, payer, space, seeds, bump)]: allocate a fresh account;
\* an address that already carries data or a program owner is rejected.
AnchorInit(w, payer, new, space, zero) ==
    IF w.data[new].len > 0 \/ new \in w.owned
    THEN [ok |-> FALSE, err |-> "AccountAlreadyInUse", w |-> w]
    ELSE
      LET need == IF w.lamports[new] >= RentExempt(space)
                  THEN 0 ELSE RentExempt(space) - w.lamports[new]
      IN
      IF w.lamports[payer] < need
      THEN [ok |-> FALSE, err |-> "SystemInsufficientFunds", w |-> w]
      ELSE [ok |-> TRUE, err |-> "Ok",
            w |-> Effect([w EXCEPT !.lamports[payer] = @ - need,
                                   !.lamports[new] = @ + need,
                                   !.data[new] = zero,
                                   !.owned = @ \cup {new}],
                         "create_account", new)]

\* Account<'info, T>: the account must be owned by the program and carry T
AnchorLoaded(w, acct) == acct \in w.owned /\ w.data[acct].len > 0

AnchorStore(w, acct, rec) == Effect([w EXCEPT !.data[acct] = rec], "write_record", acct)

(***************************************************************************)
(* Anchor (both files): initialize + Initialize accounts struct            *)
(***************************************************************************)
anchor_initialize(w, executor, authority, is_signer, execution_account) ==
    IF executor # ExecutorPda
    THEN Outcome("ConstraintSeeds", w)
    ELSE IF ~is_signer
    THEN Outcome("AccountNotSigner", w)
    ELSE
      LET c == AnchorInit(w, WalletAddr(authority), executor,
                          AnchorExecutorSpace, AnchorZeroExecutor)
      IN IF ~c.ok
         THEN Outcome(c.err, c.w)
         ELSE Outcome("Ok",
                AnchorStore(c.w, executor,
                    [len |-> AnchorExecutorSpace,
                     execution_account |-> execution_account,
                     authority |-> authority, bump |-> 255]))

\* Deposit accounts struct: vault seeds + SystemAccount, user Signer,
\* user_deposit init_if_needed under seeds ["user_deposit", user]
AnchorDepositAccounts(w, vault, user, is_signer, user_deposit) ==
    IF vault # VaultPda
    THEN [ok |-> FALSE, err |-> "ConstraintSeeds", w |-> w]
    ELSE IF vault \in w.owned
    THEN [ok |-> FALSE, err |-> "AccountNotSystemOwned", w |-> w]
    ELSE IF ~is_signer
    THEN [ok |-> FALSE, err |-> "AccountNotSigner", w |-> w]
    ELSE IF user_deposit # UserDepositPda(user)
    THEN [ok |-> FALSE, err |-> "ConstraintSeeds", w |-> w]
    ELSE IF AnchorLoaded(w, user_deposit)
    THEN [ok |-> TRUE, err |-> "Ok", w |-> w]
    ELSE AnchorInit(w, WalletAddr(user), user_deposit,
                    AnchorUserDepositSpace, AnchorZeroUserDeposit)

\* Withdraw accounts struct: user_deposit must already exist
AnchorWithdrawAccounts(w, vault, user, is_signer, user_deposit) ==
    IF vault # VaultPda
    THEN "ConstraintSeeds"
    ELSE IF vault \in w.owned
    THEN "AccountNotSystemOwned"
    ELSE IF ~is_signer
    THEN "AccountNotSigner"
    ELSE IF user_deposit # UserDepositPda(user)
    THEN "ConstraintSeeds"
    ELSE IF ~AnchorLoaded(w, user_deposit)
    THEN "AccountNotInitialized"
    ELSE "Ok"

\* ExecuteWithIntent accounts struct: no Signer field at all
AnchorExecuteAccounts(w, executor, vault, user_deposit, user) ==
    IF executor # ExecutorPda
    THEN "ConstraintSeeds"
    ELSE IF ~AnchorLoaded(w, executor)
    THEN "AccountNotInitialized"
    ELSE IF vault # VaultPda
    THEN "ConstraintSeeds"
    ELSE IF vault \in w.owned
    THEN "AccountNotSystemOwned"
    ELSE IF user_deposit # UserDepositPda(user)
    THEN "ConstraintSeeds"
    ELSE IF ~AnchorLoaded(w, user_deposit)
    THEN "AccountNotInitialized"
    ELSE "Ok"

(***************************************************************************)
(* Anchor plaintext variant (lib.rs): deposit, withdraw, execute           *)
(***************************************************************************)
\* u64::MAX, scaled: the smallest width that holds the ledger's whole
\* lamport supply (lamports are u64 as well)
U64_MAX == 2 * StartLamports + 1

\* u64::checked_add / u64::checked_sub
checked_add(a, b) ==
    IF a + b > U64_MAX THEN [ok |-> FALSE, v |-> 0] ELSE [ok |-> TRUE, v |-> a + b]

checked_sub(a, b) ==
    IF a < b THEN [ok |-> FALSE, v |-> 0] ELSE [ok |-> TRUE, v |-> a - b]

anchor_deposit(w, vault, user, is_signer, user_deposit, amount) ==
    LET a == AnchorDepositAccounts(w, vault, user, is_signer, user_deposit) IN
    IF ~a.ok
    THEN Outcome(a.err, a.w)
    ELSE IF ~(amount > 0)
    THEN Outcome("InvalidAmount", a.w)
    ELSE
      LET t == SysTransfer(a.w, WalletAddr(user), vault, amount) IN
      IF ~t.ok
      THEN Outcome(t.err, t.w)
      ELSE
        LET s == checked_add(t.w.data[user_deposit].balance, amount) IN
        IF ~s.ok
        THEN Outcome("ArithmeticOverflow", t.w)
        ELSE Outcome("Ok",
               AnchorStore(t.w, user_deposit,
                   [len |-> AnchorUserDepositSpace, user |-> user,
                    balance |-> s.v]))

\* withdraw with the solvency test dropped and a wrapping subtraction
anchor_withdraw_wrapping(w, vault, user, is_signer, user_deposit, amount) ==
    LET a == AnchorWithdrawAccounts(w, vault, user, is_signer, user_deposit) IN
    IF a # "Ok"
    THEN Outcome(a, w)
    ELSE
      LET d == w.data[user_deposit] IN
      IF d.user # user
      THEN Outcome("UnauthorizedUser", w)
      ELSE
        LET t == SysTransfer(w, vault, WalletAddr(user), amount) IN
        IF ~t.ok
        THEN Outcome(t.err, t.w)
        ELSE Outcome("Ok",
               AnchorStore(t.w, user_deposit,
                   [d EXCEPT !.balance = (@ - amount) % (U64_MAX + 1)]))

anchor_withdraw(w, vault, user, is_signer, user_deposit, amount) ==
    LET a == AnchorWithdrawAccounts(w, vault, user, is_signer, user_deposit) IN
    IF a # "Ok"
    THEN Outcome(a, w)
    ELSE
      LET d == w.data[user_deposit] IN
      IF d.user # user
      THEN Outcome("UnauthorizedUser", w)
      ELSE IF ~(d.balance >= amount)
      THEN Outcome("InsufficientFunds", w)
      ELSE
        LET s == checked_sub(d.balance, amount) IN
        IF ~s.ok
        THEN Outcome("ArithmeticOverflow", w)
        ELSE
          LET t == SysTransfer(w, vault, WalletAddr(user), amount) IN
          IF ~t.ok
          THEN Outcome(t.err, t.w)
          ELSE Outcome("Ok",
                 AnchorStore(t.w, user_deposit, [d EXCEPT !.balance = s.v]))

anchor_execute_with_intent(w, executor, vault, user_deposit, user, signature, execution_amount) ==
    LET a == AnchorExecuteAccounts(w, executor, vault, user_deposit, user) IN
    IF a # "Ok"
    THEN Outcome(a, w)
    ELSE IF Len(signature) = 0
    THEN Outcome("InvalidSignature", w)
    ELSE
      LET d == w.data[user_deposit] IN
      IF d.user # user
      THEN Outcome("UnauthorizedUser", w)
      ELSE IF ~(d.balance >= execution_amount)
      THEN Outcome("InsufficientFunds", w)
      ELSE
        LET s == checked_sub(d.balance, execution_amount) IN
        IF ~s.ok
        THEN Outcome("ArithmeticOverflow", w)
        ELSE Outcome("Ok",
               AnchorStore(w, user_deposit, [d EXCEPT !.balance = s.v]))

(***************************************************************************)
(* Anchor confidential variant (lib-inco-backup.rs).  The inco_lightning   *)
(* crate's e_ge yields an Ebool handle; e_select picks by its plaintext.   *)
(***************************************************************************)
cpi_e_select(reply, site, cond, if_true, if_false) ==
    inco_return_u128(reply, site, IF IncoDecode(cond) = 1 THEN if_true ELSE if_false)

cpi_e_ge(reply, site, lhs, rhs) ==
    inco_return_u128(reply, site,
        IncoHandle(IF IncoDecode(lhs) >= IncoDecode(rhs) THEN 1 ELSE 0))

\* lines 111-167 / 211-272: balance := balance - select(balance >= x, x, 0)
backup_deduct(w, balance, amount, reply) ==
    LET ea == inco_as_euint128(reply, 1, amount)
        w1 == Effect(w, "inco", "as_euint128")
    IN
    IF ~ea.ok THEN [ok |-> FALSE, err |-> ea.err, w |-> w1, v |-> 0]
    ELSE
      LET ez == inco_as_euint128(reply, 2, 0)
          w2 == Effect(w1, "inco", "as_euint128")
      IN
      IF ~ez.ok THEN [ok |-> FALSE, err |-> ez.err, w |-> w2, v |-> 0]
      ELSE
        LET ge == cpi_e_ge(reply, 3, balance, ea.v)
            w3 == Effect(w2, "inco", "e_ge")
        IN
        IF ~ge.ok THEN [ok |-> FALSE, err |-> ge.err, w |-> w3, v |-> 0]
        ELSE
          LET sel == cpi_e_select(reply, 4, ge.v, ea.v, ez.v)
              w4  == Effect(w3, "inco", "e_select")
          IN
          IF ~sel.ok THEN [ok |-> FALSE, err |-> sel.err, w |-> w4, v |-> 0]
          ELSE
            LET sb == inco_e_sub(reply, 5, balance, sel.v)
                w5 == Effect(w4, "inco", "e_sub")
            IN [ok |-> sb.ok, err |-> sb.err, w |-> w5, v |-> sb.v]

backup_deposit(w, vault, user, is_signer, user_deposit, amount, ciphertext, reply) ==
    LET a == AnchorDepositAccounts(w, vault, user, is_signer, user_deposit) IN
    IF ~a.ok
    THEN Outcome(a.err, a.w)
    ELSE IF ~(amount > 0)
    THEN Outcome("InvalidAmount", a.w)
    ELSE
      LET t == SysTransfer(a.w, WalletAddr(user), vault, amount) IN
      IF ~t.ok
      THEN Outcome(t.err, t.w)
      ELSE
        LET e  == inco_new_euint128(reply, 1, ciphertext)
            w1 == Effect(t.w, "inco", "new_euint128")
            b0 == w1.data[user_deposit].balance
        IN
        IF ~e.ok
        THEN Outcome(e.err, w1)
        ELSE
          LET z  == IF b0 = 0
                    THEN inco_as_euint128(reply, 2, 0)
                    ELSE [ok |-> TRUE, err |-> "Ok", v |-> b0]
              w2 == IF b0 = 0 THEN Effect(w1, "inco", "as_euint128") ELSE w1
          IN
          IF ~z.ok
          THEN Outcome(z.err, w2)
          ELSE
            LET s  == inco_e_add(reply, 3, z.v, e.v)
                w3 == Effect(w2, "inco", "e_add")
            IN
            IF ~s.ok
            THEN Outcome(s.err, w3)
            ELSE Outcome("Ok",
                   AnchorStore(w3, user_deposit,
                       [len |-> AnchorUserDepositSpace, user |-> user,
                        balance |-> s.v]))

backup_withdraw(w, vault, user, is_signer, user_deposit, amount, reply) ==
    LET a == AnchorWithdrawAccounts(w, vault, user, is_signer, user_deposit) IN
    IF a # "Ok"
    THEN Outcome(a, w)
    ELSE
      LET d == w.data[user_deposit] IN
      IF d.user # user
      THEN Outcome("UnauthorizedUser", w)
      ELSE
        LET r == backup_deduct(w, d.balance, amount, reply) IN
        IF ~r.ok
        THEN Outcome(r.err, r.w)
        ELSE
          LET t == SysTransfer(r.w, vault, WalletAddr(user), amount) IN
          IF ~t.ok
          THEN Outcome(t.err, t.w)
          ELSE Outcome("Ok",
                 AnchorStore(t.w, user_deposit, [d EXCEPT !.balance = r.v]))

backup_execute_with_intent(w, executor, vault, user_deposit, user, signature, execution_amount, reply) ==
    LET a == AnchorExecuteAccounts(w, executor, vault, user_deposit, user) IN
    IF a # "Ok"
    THEN Outcome(a, w)
    ELSE IF Len(signature) = 0
    THEN Outcome("InvalidSignature", w)
    ELSE
      LET d == w.data[user_deposit] IN
      IF d.user # user
      THEN Outcome("UnauthorizedUser", w)
      ELSE
        LET r == backup_deduct(w, d.balance, execution_amount, reply) IN
        IF ~r.ok
        THEN Outcome(r.err, r.w)
        ELSE Outcome("Ok",
               AnchorStore(r.w, user_deposit, [d EXCEPT !.balance = r.v]))

(***************************************************************************)
(* Sandbox counter program (tests/test_magic).  Its one account of its own *)
(* is the counter PDA, kept in `counter`: lamports, data bytes and whether *)
(* the program owns it; the wallets are those of the ledger.  An outcome   *)
(* is [res, lamports, counter].  `increments` counts the successful        *)
(* increments since the last successful initialize.  u64 is scaled as for  *)
(* the Anchor program.                                                     *)
(***************************************************************************)
COUNTER_INITIALIZE == 0

COUNTER_INCREMENT == 1

COUNTER_GET_VALUE == 2

CounterPda == [seed |-> "counter", key |-> DefaultKey]

NoAccount == [lamports |-> 0, data |-> <<>>, owned |-> FALSE]

CounterWorld == [lamports |-> lamports, counter |-> counter]

CounterOutcome(res, w) == [res |-> res, lamports |-> w.lamports, counter |-> w.counter]

\* counter_account.data of the account presented: only the PDA has any
CounterData(w, counter_account) ==
    IF counter_account = CounterPda THEN w.counter.data ELSE <<>>

\* lines 83-93: create_account(user, counter PDA, rent, 8, program_id)
counter_create_account(w, user) ==
    IF w.counter.lamports > 0 \/ Len(w.counter.data) > 0 \/ w.counter.owned
    THEN [ok |-> FALSE, err |-> "AccountAlreadyInUse", w |-> w]
    ELSE IF w.lamports[WalletAddr(user)] < RentExempt(8)
    THEN [ok |-> FALSE, err |-> "SystemInsufficientFunds", w |-> w]
    ELSE [ok |-> TRUE, err |-> "Ok",
          w |-> [lamports |-> [w.lamports EXCEPT ![WalletAddr(user)] = @ - RentExempt(8)],
                 counter |-> [lamports |-> RentExempt(8),
                              data |-> [i \in 1..8 |-> 0],
                              owned |-> TRUE]]]

\* lines 48-108
counter_initialize(w, counter_account, user, is_signer) ==
    IF ~is_signer
    THEN CounterOutcome("MissingRequiredSignature", w)
    ELSE IF counter_account # CounterPda
    THEN CounterOutcome("InvalidAccountData", w)
    ELSE
      LET c == IF w.counter.lamports = 0
               THEN counter_create_account(w, user)
               ELSE [ok |-> TRUE, err |-> "Ok", w |-> w]
      IN
      IF ~c.ok
      THEN CounterOutcome(c.err, c.w)
      ELSE IF Len(c.w.counter.data) < 8
      THEN CounterOutcome("InvalidAccountData", c.w)
      ELSE CounterOutcome("Ok",
               [c.w EXCEPT !.counter.data =
                    CopyFromSlice(@, 0, 8, to_le_bytes(0, 8))])

\* increment adding to the value without the overflow check
counter_increment_wrapping(w, counter_account) ==
    LET bytes == CounterData(w, counter_account) IN
    IF Len(bytes) < 8
    THEN CounterOutcome("InvalidAccountData", w)
    ELSE
      LET value == (from_le_bytes(Slice(bytes, 0, 8)) + 1) % (U64_MAX + 1) IN
      CounterOutcome("Ok",
          [w EXCEPT !.counter.data = CopyFromSlice(@, 0, 8, to_le_bytes(value, 8))])

\* lines 112-139
counter_increment(w, counter_account) ==
    LET bytes == CounterData(w, counter_account) IN
    IF Len(bytes) < 8
    THEN CounterOutcome("InvalidAccountData", w)
    ELSE
      LET value == checked_add(from_le_bytes(Slice(bytes, 0, 8)), 1) IN
      IF ~value.ok
      THEN CounterOutcome("ArithmeticOverflow", w)
      ELSE CounterOutcome("Ok",
               [w EXCEPT !.counter.data =
                    CopyFromSlice(@, 0, 8, to_le_bytes(value.v, 8))])

\* lines 143-163
counter_get_value(w, counter_account) ==
    IF Len(CounterData(w, counter_account)) < 8
    THEN CounterOutcome("InvalidAccountData", w)
    ELSE CounterOutcome("Ok", w)

\* lines 25-44
counter_process_instruction(w, accounts, instruction_data) ==
    IF Len(instruction_data) = 0
    THEN CounterOutcome("InvalidInstructionData", w)
    ELSE
      LET instruction == instruction_data[1] IN
      CASE instruction = COUNTER_INITIALIZE ->
               counter_initialize(w, accounts.counter_account, accounts.user,
                                  accounts.is_signer)
        [] instruction = COUNTER_INCREMENT ->
               counter_increment(w, accounts.counter_account)
        [] instruction = COUNTER_GET_VALUE ->
               counter_get_value(w, accounts.counter_account)
        [] OTHER -> CounterOutcome("InvalidInstructionData", w)

(***************************************************************************)
(* Calls.  A nominal call presents the derived accounts, is signed and     *)
(* gets full coprocessor replies; the callers of the model issue every     *)
(* nominal call and every call that departs from a nominal one in one      *)
(* respect (a substituted account, a missing signature, an empty intent    *)
(* signature, a bad coprocessor reply).                                    *)
(***************************************************************************)
Amounts == 0..MaxAmount

Replies(n) ==
    {NoFailure} \cup {[failAt |-> i, len |-> 8] : i \in 1..n}
        \cup {[failAt |-> 1, len |-> -1]}

Signatures == {<<>>, <<7>>}

\* numbers of bytes missing from the end of a payload
Cuts == {1, 2, 40}

OneOff(nominal, field, values) == {[nominal EXCEPT ![field] = v] : v \in values}

InitializeNominal ==
    {[executor |-> ExecutorPda, authority |-> a, is_signer |-> TRUE,
      execution_account |-> r, cut |-> 0] : a \in Wallets, r \in Wallets}

InitializeCalls ==
    InitializeNominal
        \cup UNION {OneOff(c, "executor", {VaultPda}) : c \in InitializeNominal}
        \cup UNION {OneOff(c, "is_signer", {FALSE}) : c \in InitializeNominal}
        \cup UNION {OneOff(c, "cut", Cuts) : c \in InitializeNominal}

DepositNominal ==
    {[vault |-> VaultPda, user |-> u, is_signer |-> TRUE,
      user_deposit |-> UserDepositPda(u), amount |-> a, ciphertext |-> c,
      reply |-> NoFailure, cut |-> 0] : u \in Wallets, a \in Amounts, c \in Amounts}

DepositCalls ==
    LET base == {c \in DepositNominal : c.amount = 1 /\ c.ciphertext = 1} IN
    DepositNominal
        \cup UNION {OneOff(c, "vault", {ExecutorPda}) : c \in base}
        \cup UNION {OneOff(c, "is_signer", {FALSE}) : c \in base}
        \cup UNION {OneOff(c, "user_deposit",
                           {UserDepositPda(v) : v \in Wallets \ {c.user}}) : c \in base}
        \cup UNION {OneOff(c, "reply", Replies(3)) : c \in base}
        \cup UNION {OneOff(c, "cut", Cuts) : c \in base}

WithdrawNominal ==
    {[vault |-> VaultPda, user |-> u, is_signer |-> TRUE,
      user_deposit |-> UserDepositPda(u), amount |-> a,
      reply |-> NoFailure, cut |-> 0] : u \in Wallets, a \in Amounts}

WithdrawCalls ==
    LET base == {c \in WithdrawNominal : c.amount = 1} IN
    WithdrawNominal
        \cup UNION {OneOff(c, "vault", {ExecutorPda}) : c \in base}
        \cup UNION {OneOff(c, "is_signer", {FALSE}) : c \in base}
        \cup UNION {OneOff(c, "user_deposit",
                           {UserDepositPda(v) : v \in Wallets \ {c.user}}) : c \in base}
        \cup UNION {OneOff(c, "reply", Replies(3)) : c \in base}
        \cup UNION {OneOff(c, "cut", Cuts) : c \in base}

ExecuteNominal ==
    {[executor |-> ExecutorPda, vault |-> VaultPda,
      user_deposit |-> UserDepositPda(u), user |-> u, execution_account |-> r,
      is_signer |-> TRUE, intent_hash |-> 1, signature |-> <<7>>, amount |-> a,
      ciphertext |-> c, reply |-> NoFailure, cut |-> 0] :
        u \in Wallets, r \in Wallets, a \in Amounts, c \in Amounts}

ExecuteCalls ==
    LET base == {c \in ExecuteNominal : c.amount = 1 /\ c.ciphertext = 1} IN
    ExecuteNominal
        \cup UNION {OneOff(c, "executor", {VaultPda}) : c \in base}
        \cup UNION {OneOff(c, "vault", {ExecutorPda}) : c \in base}
        \cup UNION {OneOff(c, "is_signer", {FALSE}) : c \in base}
        \cup UNION {OneOff(c, "signature", {<<>>}) : c \in base}
        \cup UNION {OneOff(c, "user_deposit",
                           {UserDepositPda(v) : v \in Wallets \ {c.user}}) : c \in base}
        \cup UNION {OneOff(c, "reply", Replies(5)) : c \in base}
        \cup UNION {OneOff(c, "cut", Cuts) : c \in base}

\* the handlers applied to a call record
RunInitialize(c) ==
    process_instruction(World, c,
        <<INITIALIZE, InitializeData(c.execution_account, c.cut)>>)

RunDeposit(c) ==
    process_instruction(World, c,
        <<DEPOSIT, DepositData(c.amount, c.ciphertext, c.cut)>>)

RunWithdraw(c) ==
    process_instruction(World, c, <<WITHDRAW, WithdrawData(c.amount, c.cut)>>)

RunExecute(c) ==
    process_instruction(World, c,
        <<EXECUTE_WITH_INTENT,
          ExecuteData(c.intent_hash, c.signature, c.amount, c.ciphertext, c.cut)>>)

RunAnchorInitialize(c) ==
    anchor_initialize(World, c.executor, c.authority, c.is_signer, c.execution_account)

RunAnchorDeposit(c) ==
    anchor_deposit(World, c.vault, c.user, c.is_signer, c.user_deposit, c.amount)

RunAnchorWithdraw(c) ==
    anchor_withdraw(World, c.vault, c.user, c.is_signer, c.user_deposit, c.amount)

RunAnchorExecute(c) ==
    anchor_execute_with_intent(World, c.executor, c.vault, c.user_deposit, c.user,
                               c.signature, c.amount)

RunBackupDeposit(c) ==
    backup_deposit(World, c.vault, c.user, c.is_signer, c.user_deposit, c.amount,
                   c.ciphertext, c.reply)

RunBackupWithdraw(c) ==
    backup_withdraw(World, c.vault, c.user, c.is_signer, c.user_deposit, c.amount,
                    c.reply)

RunBackupExecute(c) ==
    backup_execute_with_intent(World, c.executor, c.vault, c.user_deposit, c.user,
                               c.signature, c.amount, c.reply)

(***************************************************************************)
(* State machine                                                           *)
(***************************************************************************)
Init ==
    /\ variant \in Variants
    /\ ebool \in (IF variant = "native" THEN EboolModes ELSE {"handle"})
    /\ lamports = [a \in Addrs |-> IF a.seed = "wallet" THEN StartLamports ELSE 0]
    /\ data = [a \in Addrs |-> NoData]
    /\ owned = {}
    /\ dst = <<>>
    /\ packed = NoRecord
    /\ counter = NoAccount
    /\ increments = 0

\* The host applies an instruction's writes only if it returned Ok.  An
\* instruction that returns an error leaves every account as it was, which
\* is a stuttering step of the specification.
Commit(o) ==
    /\ o.res = "Ok"
    /\ lamports' = o.lamports
    /\ data' = o.data
    /\ owned' = o.owned
    /\ UNCHANGED <<variant, ebool, dst, packed, counter, increments>>

\* the plaintext a stored balance field stands for
Plain(b) == IF variant = "anchor" THEN b ELSE IncoDecode(b)

\* exploration bound on the balance a deposit may build up
WithinBalance(o, user_deposit) ==
    o.res = "Ok" => Plain(o.data[user_deposit].balance) <= MaxBalance

Initialize ==
    /\ variant = "native"
    /\ \E c \in InitializeCalls : \E o \in {RunInitialize(c)} : Commit(o)

Deposit ==
    /\ variant = "native"
    /\ \E c \in DepositCalls :
          \E o \in {RunDeposit(c)} :
              /\ WithinBalance(o, c.user_deposit)
              /\ Commit(o)

Withdraw ==
    /\ variant = "native"
    /\ \E c \in WithdrawCalls : \E o \in {RunWithdraw(c)} : Commit(o)

ExecuteWithIntent ==
    /\ variant = "native"
    /\ \E c \in ExecuteCalls : \E o \in {RunExecute(c)} : Commit(o)

AnchorInitialize ==
    /\ variant \in {"anchor", "backup"}
    /\ \E c \in InitializeCalls :
          /\ c.cut = 0
          /\ \E o \in {RunAnchorInitialize(c)} : Commit(o)

AnchorDeposit ==
    /\ variant = "anchor"
    /\ \E c \in DepositCalls :
          /\ c.ciphertext = 0
          /\ c.reply = NoFailure
          /\ c.cut = 0
          /\ \E o \in {RunAnchorDeposit(c)} :
                /\ WithinBalance(o, c.user_deposit)
                /\ Commit(o)

AnchorWithdraw ==
    /\ variant = "anchor"
    /\ \E c \in WithdrawCalls :
          /\ c.reply = NoFailure
          /\ c.cut = 0
          /\ \E o \in {RunAnchorWithdraw(c)} : Commit(o)

AnchorExecuteWithIntent ==
    /\ variant = "anchor"
    /\ \E c \in ExecuteCalls :
          /\ c.ciphertext = 0
          /\ c.reply = NoFailure
          /\ c.cut = 0
          /\ Len(c.signature) > 0
          /\ \E o \in {RunAnchorExecute(c)} : Commit(o)

BackupDeposit ==
    /\ variant = "backup"
    /\ \E c \in DepositCalls :
          /\ c.cut = 0
          /\ \E o \in {RunBackupDeposit(c)} :
                /\ WithinBalance(o, c.user_deposit)
                /\ Commit(o)

BackupWithdraw ==
    /\ variant = "backup"
    /\ \E c \in WithdrawCalls :
          /\ c.cut = 0
          /\ \E o \in {RunBackupWithdraw(c)} : Commit(o)

BackupExecuteWithIntent ==
    /\ variant = "backup"
    /\ \E c \in ExecuteCalls :
          /\ c.ciphertext = 0
          /\ c.cut = 0
          /\ \E o \in {RunBackupExecute(c)} : Commit(o)

\* Anyone may send lamports to an address that has not been created yet.
Prefund ==
    \E k \in Wallets, a \in Addrs :
        /\ a.seed # "wallet"
        /\ lamports[a] = 0
        /\ lamports[WalletAddr(k)] >= 1
        /\ lamports' = [lamports EXCEPT ![WalletAddr(k)] = @ - 1, ![a] = 1]
        /\ UNCHANGED <<variant, ebool, data, owned, dst, packed, counter, increments>>

Next ==
    \/ Initialize
    \/ Deposit
    \/ Withdraw
    \/ ExecuteWithIntent
    \/ AnchorInitialize
    \/ AnchorDeposit
    \/ AnchorWithdraw
    \/ AnchorExecuteWithIntent
    \/ BackupDeposit
    \/ BackupWithdraw
    \/ BackupExecuteWithIntent
    \/ Prefund

Spec == Init /\ [][Next]_vars

\* the native deployment on its own
NativeInit == Init /\ variant = "native"

NativeNext ==
    \/ Initialize
    \/ Deposit
    \/ Withdraw
    \/ ExecuteWithIntent
    \/ Prefund

NativeSpec == NativeInit /\ [][NativeNext]_vars

(***************************************************************************)
(* The account codec on its own: every record value is packed into a       *)
(* buffer of the layout size, or of a size next to it, holding arbitrary   *)
(* earlier content.                                                        *)
(***************************************************************************)
Keys == Wallets \cup {DefaultKey}

Executors ==
    [execution_account : Keys, authority : Keys, is_initialized : BOOLEAN]

\* stored balances: the handles of the ledger model and values that fill
\* more than one byte
StoredBalances == (0..(MaxBalance + 1)) \cup {255, 256, 66051}

UserDeposits == [user : Keys, balance : StoredBalances]

\* what a buffer holds before it is packed into
Fills == {0, 1, 255}

Buffer(n, fill) == [i \in 1..n |-> fill]

CodecInit == Init /\ variant = "native" /\ ebool = "flag"

PackExecutor ==
    \E e \in Executors, n \in {0, ExecutorLEN - 1, ExecutorLEN}, f \in Fills :
        /\ dst' = Executor_pack_into_slice(e, Buffer(n, f))
        /\ packed' = [kind |-> "Executor", v |-> e]
        /\ UNCHANGED <<variant, ebool, lamports, data, owned, counter, increments>>

PackUserDeposit ==
    \E d \in UserDeposits, n \in {0, UserDepositLEN - 1, UserDepositLEN}, f \in Fills :
        /\ dst' = UserDeposit_pack_into_slice(d, Buffer(n, f))
        /\ packed' = [kind |-> "UserDeposit", v |-> d]
        /\ UNCHANGED <<variant, ebool, lamports, data, owned, counter, increments>>

CodecNext == PackExecutor \/ PackUserDeposit

CodecSpec == CodecInit /\ [][CodecNext]_vars

(***************************************************************************)
(* The sandbox counter program on its own.  Anyone may call it with any    *)
(* of the accounts below, signed or not, and anyone may send lamports to   *)
(* the counter address before or after the account is created.             *)
(***************************************************************************)
CounterCalls ==
    {[counter_account |-> a, user |-> u, is_signer |-> sg] :
        a \in {CounterPda} \cup {WalletAddr(k) : k \in Wallets},
        u \in Wallets, sg \in BOOLEAN}

CounterRun(c, tag) == counter_process_instruction(CounterWorld, c, <<tag>>)

CounterInit == Init /\ variant = "native" /\ ebool = "flag"

CounterCommit(o) ==
    /\ o.res = "Ok"
    /\ lamports' = o.lamports
    /\ counter' = o.counter
    /\ UNCHANGED <<variant, ebool, data, owned, dst, packed>>

CounterInitialize ==
    \E c \in CounterCalls :
        \E o \in {CounterRun(c, COUNTER_INITIALIZE)} :
            /\ CounterCommit(o)
            /\ increments' = 0

CounterIncrement ==
    \E c \in CounterCalls :
        \E o \in {CounterRun(c, COUNTER_INCREMENT)} :
            /\ CounterCommit(o)
            /\ increments' = increments + 1

CounterGetValue ==
    \E c \in CounterCalls :
        \E o \in {CounterRun(c, COUNTER_GET_VALUE)} :
            /\ CounterCommit(o)
            /\ UNCHANGED increments

FundCounter ==
    \E k \in Wallets :
        /\ lamports[WalletAddr(k)] >= 1
        /\ lamports' = [lamports EXCEPT ![WalletAddr(k)] = @ - 1]
        /\ counter' = [counter EXCEPT !.lamports = @ + 1]
        /\ UNCHANGED <<variant, ebool, data, owned, dst, packed, increments>>

CounterNext ==
    \/ CounterInitialize
    \/ CounterIncrement
    \/ CounterGetValue
    \/ FundCounter

CounterSpec == CounterInit /\ [][CounterNext]_vars

(***************************************************************************)
(* Properties.  A property about a call is stated over the handler's       *)
(* outcome in every reachable state: `o.res` is the result code, and       *)
(* o.lamports / o.data are the accounts as the handler left them.          *)
(***************************************************************************)
\* the participant record of user u exists and unpacks
HasRecord(u) ==
    IF variant = "native"
    THEN UserDepositUnpack(data[UserDepositPda(u)]).ok
    ELSE AnchorLoaded(World, UserDepositPda(u))

\* the plaintext of u's stored balance, as a trusted oracle decodes it
Balance(u) == Plain(data[UserDepositPda(u)].balance)

\* withdraw calls with any combination of signer flag and presented accounts
WithdrawAny ==
    {[vault |-> v, user |-> u, is_signer |-> sg, user_deposit |-> UserDepositPda(p),
      amount |-> a, reply |-> NoFailure, cut |-> 0] :
        v \in {VaultPda, ExecutorPda}, u \in Wallets, sg \in BOOLEAN,
        p \in Wallets, a \in Amounts}

\* C1: in the native program and the Anchor plaintext variant a Withdraw of
\* more than the participant's decoded balance never succeeds; a well-formed
\* one fails with InsufficientFunds; record and native balances are unchanged.
C1_InsufficientWithdrawRejected ==
    variant \in {"native", "anchor"} =>
        \A c \in WithdrawAny :
            (HasRecord(c.user) /\ Balance(c.user) < c.amount) =>
                LET o == IF variant = "native" THEN RunWithdraw(c)
                         ELSE RunAnchorWithdraw(c)
                IN /\ o.res # "Ok"
                   /\ (c \in WithdrawNominal => o.res = "InsufficientFunds")
                   /\ o.lamports = lamports
                   /\ o.data = data

\* C2: a successful native Deposit into an existing record makes the decoded
\* balance the previous decoded balance plus the ciphertext's value; only a
\* record created by the call starts from an encryption of zero.
C2_DepositAccumulates ==
    variant = "native" =>
        \A c \in DepositNominal :
            LET o == RunDeposit(c) IN
            o.res = "Ok" =>
                IncoDecode(o.data[c.user_deposit].balance)
                    = (IF HasRecord(c.user) THEN Balance(c.user) ELSE 0) + c.ciphertext

\* C3 as stated: every successful native Deposit(amount), the vault-creating
\* one included, raises the vault's lamports by exactly amount.
C3_VaultGainsExactlyAmount ==
    variant = "native" =>
        \A c \in DepositNominal :
            LET o == RunDeposit(c) IN
            o.res = "Ok" => o.lamports[VaultPda] = lamports[VaultPda] + c.amount

\* C3 amended: a successful native Deposit(amount) raises the vault's
\* lamports by exactly amount when the vault already holds lamports, and by
\* amount plus the rent-exempt minimum when the call creates the vault.
C3_VaultGain ==
    variant = "native" =>
        \A c \in DepositNominal :
            LET o == RunDeposit(c) IN
            o.res = "Ok" =>
                o.lamports[VaultPda] =
                    lamports[VaultPda] + c.amount
                        + (IF lamports[VaultPda] = 0 THEN RentExempt(0) ELSE 0)

\* the vault was created and funded by a deposit, and a further deposit succeeds
C3_Witness ==
    /\ variant = "native"
    /\ VaultPda \in owned
    /\ lamports[VaultPda] > RentExempt(0)
    /\ \E c \in DepositNominal : RunDeposit(c).res = "Ok"

\* C4: a successful native Withdraw(amount) by U moves exactly amount from
\* the vault to U, stores sub(old balance, from_plaintext(amount)), and the
\* decoded balance goes down by exactly amount.
C4_WithdrawMovesExactly ==
    variant = "native" =>
        \A c \in WithdrawNominal :
            LET o == RunWithdraw(c) IN
            o.res = "Ok" =>
                /\ o.lamports[VaultPda] = lamports[VaultPda] - c.amount
                /\ o.lamports[WalletAddr(c.user)] = lamports[WalletAddr(c.user)] + c.amount
                /\ o.data[c.user_deposit].balance =
                       inco_e_sub(NoFailure, 1, data[c.user_deposit].balance,
                                  IncoHandle(c.amount)).v
                /\ IncoDecode(o.data[c.user_deposit].balance) = Balance(c.user) - c.amount

\* C5: a native Withdraw succeeds only if the user signed, the record
\* presented is the one derived from that user and its stored owner is that
\* user; it leaves every other user's record and wallet as they were.
C5_WithdrawAuthorized ==
    variant = "native" =>
        \A c \in WithdrawAny :
            LET o == RunWithdraw(c) IN
            o.res = "Ok" =>
                /\ c.is_signer
                /\ c.user_deposit = UserDepositPda(c.user)
                /\ data[c.user_deposit].user = c.user
                /\ \A v \in Wallets \ {c.user} :
                      /\ o.data[UserDepositPda(v)] = data[UserDepositPda(v)]
                      /\ o.lamports[WalletAddr(v)] = lamports[WalletAddr(v)]

\* every user holds a record and some withdrawal of a positive amount succeeds
C5_Witness ==
    /\ variant = "native"
    /\ \A u \in Wallets : HasRecord(u)
    /\ \E c \in WithdrawNominal : c.amount > 0 /\ RunWithdraw(c).res = "Ok"

\* execute_with_intent calls with any receiver, signer flag, signature,
\* presented record and user, the ciphertext encrypting the amount
ExecuteAny ==
    {[executor |-> ExecutorPda, vault |-> VaultPda,
      user_deposit |-> UserDepositPda(p), user |-> u, execution_account |-> r,
      is_signer |-> sg, intent_hash |-> 1, signature |-> sig, amount |-> a,
      ciphertext |-> a, reply |-> NoFailure, cut |-> 0] :
        p \in Wallets, u \in Wallets, r \in Wallets, sg \in BOOLEAN,
        sig \in Signatures, a \in Amounts}

\* the four authorisation conditions of execute_with_intent
ExecuteAuthorized(c) ==
    /\ ExecutorUnpack(data[ExecutorPda]).ok
    /\ data[ExecutorPda].execution_account = c.execution_account
    /\ c.is_signer
    /\ UserDepositUnpack(data[c.user_deposit]).ok
    /\ data[c.user_deposit].user = c.user
    /\ Len(c.signature) > 0

C7_MismatchedCiphertextRejected ==
    variant = "native" =>
        \A c \in ExecuteNominal :
            c.ciphertext # c.amount =>
                LET o == RunExecute(c) IN
                /\ o.res # "Ok"
                /\ o.data[c.user_deposit] = data[c.user_deposit]
                /\ o.lamports[VaultPda] = lamports[VaultPda]

\* accounts a caller may present in place of a derived one
Substitutes(u) == {ExecutorPda, VaultPda, UserDepositPda(u), WalletAddr(u)}

AuthErrors == {"InvalidAccountData", "MissingRequiredSignature"}

\* the handler returned an authorisation error before any effect
RejectedUntouched(o) ==
    /\ o.res \in AuthErrors
    /\ o.effects = <<>>
    /\ o.lamports = lamports
    /\ o.data = data
    /\ o.owned = owned

\* the receiver the configuration names, or u while there is none
ConfiguredReceiver(u) ==
    IF ExecutorUnpack(data[ExecutorPda]).ok
    THEN data[ExecutorPda].execution_account
    ELSE u

\* C8: in the native program, Initialize, Deposit, Withdraw and
\* DelegatedExecute called with a vault, participant-record or configuration
\* account that is not the derived address fail with an authorisation error,
\* having created no account, moved no lamports and written no record.
C8_SubstitutedAccountRejected ==
    variant = "native" =>
        \A u \in Wallets :
            /\ \A e \in Substitutes(u) \ {ExecutorPda} :
                  RejectedUntouched(initialize(World, e, u, TRUE, u))
            /\ \A v \in Substitutes(u), d \in Substitutes(u) :
                  (v # VaultPda \/ d # UserDepositPda(u)) =>
                      /\ RejectedUntouched(deposit(World, v, u, TRUE, d, 1, 1, NoFailure))
                      /\ RejectedUntouched(withdraw(World, v, u, TRUE, d, 1, NoFailure))
            /\ \A e \in Substitutes(u), v \in Substitutes(u), d \in Substitutes(u) :
                  (e # ExecutorPda \/ v # VaultPda \/ d # UserDepositPda(u)) =>
                      RejectedUntouched(
                          execute_with_intent(World, e, v, d, u, ConfiguredReceiver(u),
                                              TRUE, <<7>>, 1, 1, NoFailure))

\* all three derived accounts exist and well-formed calls succeed, so the
\* rejections are due to the substituted account alone
C8_Witness ==
    /\ variant = "native"
    /\ \E c \in ExecuteNominal : RunExecute(c).res = "Ok"
    /\ \E c \in DepositNominal : RunDeposit(c).res = "Ok"
    /\ \E c \in WithdrawNominal : c.amount > 0 /\ RunWithdraw(c).res = "Ok"
    /\ \E c \in InitializeNominal : RunInitialize(c).res = "Ok"

\* C9: once the configuration exists with authority A, a native Initialize
\* signed by another identity never changes the record.
C9_OnlyAuthorityReinitializes ==
    variant = "native" =>
        \A c \in InitializeNominal :
            (ExecutorUnpack(data[ExecutorPda]).ok
                /\ c.authority # data[ExecutorPda].authority) =>
                LET o == RunInitialize(c) IN
                o.res = "Ok" => o.data[ExecutorPda] = data[ExecutorPda]

\* the accounts an outcome leaves, as the input of a following call
AsWorld(o) == [lamports |-> o.lamports, data |-> o.data, owned |-> o.owned, effects |-> <<>>]

InitializeOn(w, c) ==
    IF variant = "native"
    THEN initialize(w, c.executor, c.authority, c.is_signer, c.execution_account)
    ELSE anchor_initialize(w, c.executor, c.authority, c.is_signer, c.execution_account)

\* C10: in every variant, Initialize(R) signed by A run twice in a row
\* succeeds both times, creates the configuration account once and leaves
\* the record the first run left.
C10_InitializeIdempotent ==
    \A c \in InitializeNominal :
        LET o1 == InitializeOn(World, c) IN
        o1.res = "Ok" =>
            LET o2 == InitializeOn(AsWorld(o1), c) IN
            /\ o2.res = "Ok"
            /\ o2.data = o1.data
            /\ \A i \in 1..Len(o2.effects) : o2.effects[i].op # "create_account"

(***************************************************************************)
(* Intent signatures.  Ed25519Sign / Ed25519Verify are the signature       *)
(* scheme's view of which byte strings are signatures; the native program  *)
(* leaves the verification as a TODO and never evaluates them.             *)
(***************************************************************************)
Ed25519Sign(key, intent_hash) == <<key[1], key[2], intent_hash>>

Ed25519Verify(signature, key, intent_hash) == signature = Ed25519Sign(key, intent_hash)

\* C11: a native DelegatedExecute changes the participant record or moves
\* funds only if the signature supplied is a valid signature by the record's
\* owner over intent_hash.
C11_OnlyValidSignatureAccepted ==
    variant = "native" =>
        \A c \in ExecuteNominal :
            LET o == RunExecute(c) IN
            (o.res = "Ok" /\ (o.data # data \/ o.lamports # lamports)) =>
                Ed25519Verify(c.signature, data[c.user_deposit].user, c.intent_hash)

ExecuteOn(w, c) ==
    process_execute_with_intent(w, c.executor, c.vault, c.user_deposit, c.user,
        c.execution_account, c.is_signer,
        ExecuteData(c.intent_hash, c.signature, c.amount, c.ciphertext, c.cut),
        c.reply)

\* C12: once a native DelegatedExecute carrying an intent_hash has succeeded,
\* a later DelegatedExecute carrying the same intent_hash and signature does
\* not succeed.
C12_NoReplay ==
    variant = "native" =>
        \A c \in ExecuteNominal :
            LET o1 == ExecuteOn(World, c) IN
            o1.res = "Ok" => ExecuteOn(AsWorld(o1), c).res # "Ok"

\* C13: a native DelegatedExecute that passes every authorisation check and
\* carries a matching ciphertext fails with InsufficientFunds and changes
\* nothing whenever the participant's decoded balance is below amount.
C13_InsufficientExecuteRejected ==
    variant = "native" =>
        \A c \in ExecuteNominal :
            (ExecuteAuthorized(c) /\ c.ciphertext = c.amount
                /\ Balance(c.user) < c.amount) =>
                LET o == RunExecute(c) IN
                /\ o.res = "InsufficientFunds"
                /\ o.lamports = lamports
                /\ o.data = data

\* C14: a successful native DelegatedExecute(amount) stores
\* sub(old balance, encrypted_amount), lowers the decoded balance by exactly
\* amount, takes exactly amount from the vault and gives exactly amount to
\* the configured receiver; no other native balance changes.
C14_ExecuteMovesExactly ==
    variant = "native" =>
        \A c \in ExecuteNominal :
            LET o == RunExecute(c)
                r == WalletAddr(data[ExecutorPda].execution_account)
            IN
            o.res = "Ok" =>
                /\ o.data[c.user_deposit].balance =
                       inco_e_sub(NoFailure, 1, data[c.user_deposit].balance,
                                  IncoHandle(c.ciphertext)).v
                /\ IncoDecode(o.data[c.user_deposit].balance) = Balance(c.user) - c.amount
                /\ o.lamports[VaultPda] = lamports[VaultPda] - c.amount
                /\ o.lamports[r] = lamports[r] + c.amount
                /\ \A a \in Addrs \ {VaultPda, r} : o.lamports[a] = lamports[a]

\* execute_with_intent of the Anchor variant deployed
RunAnchorVariantExecute(c) ==
    IF variant = "anchor" THEN RunAnchorExecute(c) ELSE RunBackupExecute(c)

\* C15: in both Anchor variants, a successful execute_with_intent that lowers
\* the participant's balance by execution_amount also moves execution_amount
\* from the vault to the configured execution account.
C15_AnchorExecuteMovesFunds ==
    variant \in {"anchor", "backup"} =>
        \A c \in ExecuteNominal :
            LET o == RunAnchorVariantExecute(c)
                r == WalletAddr(data[ExecutorPda].execution_account)
            IN
            (o.res = "Ok" /\ c.amount > 0
                /\ Plain(o.data[c.user_deposit].balance) = Balance(c.user) - c.amount) =>
                /\ o.lamports[VaultPda] = lamports[VaultPda] - c.amount
                /\ o.lamports[r] = lamports[r] + c.amount

\* C16: in both Anchor variants, execute_with_intent succeeds only if the
\* configured execution account co-signs the call and the signature is
\* non-empty.
C16_AnchorExecuteNeedsCosigner ==
    variant \in {"anchor", "backup"} =>
        \A c \in ExecuteAny :
            RunAnchorVariantExecute(c).res = "Ok" =>
                /\ c.is_signer
                /\ c.execution_account = data[ExecutorPda].execution_account
                /\ Len(c.signature) > 0

\* C17: in the Anchor confidential variant, a withdraw of more than the
\* participant's decoded balance moves no native currency out of the vault.
C17_BackupWithdrawEnforcesBalance ==
    variant = "backup" =>
        \A c \in WithdrawNominal :
            (HasRecord(c.user) /\ Balance(c.user) < c.amount) =>
                LET o == RunBackupWithdraw(c) IN
                o.res = "Ok" =>
                    /\ o.lamports[VaultPda] = lamports[VaultPda]
                    /\ o.lamports[WalletAddr(c.user)] = lamports[WalletAddr(c.user)]

\* every effect that follows a record write is one of `ops`
OnlyAfterWrite(o, ops) ==
    \A i, j \in 1..Len(o.effects) :
        (i < j /\ o.effects[i].op = "write_record") => o.effects[j].op \in ops

\* C18 as stated: in each of the four native operations the record write is
\* the last effect, after every coprocessor call and every ledger effect.
C18_RecordWrittenLast ==
    variant = "native" =>
        /\ \A c \in InitializeNominal :
              LET o == RunInitialize(c) IN o.res = "Ok" => OnlyAfterWrite(o, {})
        /\ \A c \in DepositNominal :
              LET o == RunDeposit(c) IN o.res = "Ok" => OnlyAfterWrite(o, {})
        /\ \A c \in WithdrawNominal :
              LET o == RunWithdraw(c) IN o.res = "Ok" => OnlyAfterWrite(o, {})
        /\ \A c \in ExecuteNominal :
              LET o == RunExecute(c) IN o.res = "Ok" => OnlyAfterWrite(o, {})

\* C18, amended: in native Initialize and Deposit nothing follows the record
\* write; in Withdraw and DelegatedExecute the record write follows every
\* coprocessor call and only the debit of the vault and the credit of the
\* recipient follow it.
C18_RecordWriteOrder ==
    variant = "native" =>
        /\ \A c \in InitializeCalls : OnlyAfterWrite(RunInitialize(c), {})
        /\ \A c \in DepositCalls : OnlyAfterWrite(RunDeposit(c), {})
        /\ \A c \in WithdrawCalls : OnlyAfterWrite(RunWithdraw(c), {"debit", "credit"})
        /\ \A c \in ExecuteCalls : OnlyAfterWrite(RunExecute(c), {"debit", "credit"})

\* a deposit that ends with its record write and a withdrawal whose record
\* write is followed by the payout are both possible
C18_Witness ==
    /\ variant = "native"
    /\ \E c \in DepositNominal :
          LET o == RunDeposit(c) IN
          /\ o.res = "Ok"
          /\ Len(o.effects) > 1
          /\ o.effects[Len(o.effects)].op = "write_record"
    /\ \E c \in WithdrawNominal :
          LET o == RunWithdraw(c) IN
          /\ o.res = "Ok"
          /\ c.amount > 0
          /\ o.effects[Len(o.effects)].op = "credit"

\* positions of the record write / of the vault debit in an outcome's effects
WritesOf(o, acct) ==
    {i \in 1..Len(o.effects) :
        o.effects[i].op = "write_record" /\ o.effects[i].acct = acct}

DebitsOf(o, acct) ==
    {i \in 1..Len(o.effects) : o.effects[i].op = "debit" /\ o.effects[i].acct = acct}

\* the record is written before the vault is debited; a completed operation
\* has done both, a failed one has not debited the vault
WrittenThenMoved(o, user_deposit_account, vault_account) ==
    LET W == WritesOf(o, user_deposit_account)
        M == DebitsOf(o, vault_account)
    IN
    /\ \A i \in W, j \in M : i < j
    /\ M # {} => W # {}
    /\ o.res = "Ok" => (W # {} /\ M # {})
    /\ o.res # "Ok" => M = {}

\* C19: in native Withdraw and DelegatedExecute the decremented balance is
\* written to the participant record before the lamports leave the vault,
\* and a completed operation has always done both: the record holds
\* sub(old balance, encrypted amount) and the vault is debited by amount.
C19_WriteThenMove ==
    variant = "native" =>
        /\ \A c \in WithdrawCalls :
              LET o == RunWithdraw(c) IN
              /\ WrittenThenMoved(o, c.user_deposit, c.vault)
              /\ o.res = "Ok" =>
                    /\ o.data[c.user_deposit].balance =
                           inco_e_sub(NoFailure, 1, data[c.user_deposit].balance,
                                      IncoHandle(c.amount)).v
                    /\ o.lamports[c.vault] = lamports[c.vault] - c.amount
        /\ \A c \in ExecuteCalls :
              LET o == RunExecute(c) IN
              /\ WrittenThenMoved(o, c.user_deposit, c.vault)
              /\ o.res = "Ok" =>
                    /\ o.data[c.user_deposit].balance =
                           inco_e_sub(NoFailure, 1, data[c.user_deposit].balance,
                                      IncoHandle(c.ciphertext)).v
                    /\ o.lamports[c.vault] = lamports[c.vault] - c.amount

\* a withdrawal and a delegated execution of a positive amount both complete,
\* each changing the record and the vault
C19_Witness ==
    /\ variant = "native"
    /\ \E c \in WithdrawNominal :
          LET o == RunWithdraw(c) IN
          /\ o.res = "Ok"
          /\ o.data[c.user_deposit] # data[c.user_deposit]
          /\ o.lamports[VaultPda] < lamports[VaultPda]
    /\ \E c \in ExecuteNominal :
          LET o == RunExecute(c) IN
          /\ o.res = "Ok"
          /\ o.data[c.user_deposit] # data[c.user_deposit]
          /\ o.lamports[VaultPda] < lamports[VaultPda]

StructuralErrors == {"InvalidInstructionData", "InvalidAccountData", "UninitializedAccount"}

\* the outcome carries no account creation, no lamport movement, no write
NoMutation(o) ==
    /\ \A i \in 1..Len(o.effects) : o.effects[i].op = "inco"
    /\ o.lamports = lamports
    /\ o.data = data
    /\ o.owned = owned

\* calls presenting the derived accounts, signed, with full coprocessor replies
WellAddressed(calls, nominal) ==
    {c \in calls : [c EXCEPT !.cut = 0] \in nominal}

\* C20: when a native operation returns a structural-decode error (truncated
\* payload, undersized or undecodable record) it has created no account,
\* moved no lamports and written no record.
C20_DecodeErrorBeforeMutation ==
    variant = "native" =>
        /\ \A c \in WellAddressed(InitializeCalls, InitializeNominal) :
              LET o == RunInitialize(c) IN o.res \in StructuralErrors => NoMutation(o)
        /\ \A c \in WellAddressed(DepositCalls, DepositNominal) :
              LET o == RunDeposit(c) IN o.res \in StructuralErrors => NoMutation(o)
        /\ \A c \in WellAddressed(WithdrawCalls, WithdrawNominal) :
              LET o == RunWithdraw(c) IN o.res \in StructuralErrors => NoMutation(o)
        /\ \A c \in WellAddressed(ExecuteCalls, ExecuteNominal) :
              LET o == RunExecute(c) IN o.res \in StructuralErrors => NoMutation(o)

(***************************************************************************)
(* Entry dispatcher                                                        *)
(***************************************************************************)
\* first bytes that name no operation
UnknownTags == {4, 255}

\* the outcome is the structural error and nothing was invoked or changed
RejectedAtEntry(o) ==
    /\ o.res = "InvalidInstructionData"
    /\ o.effects = <<>>
    /\ o.lamports = lamports
    /\ o.data = data
    /\ o.owned = owned

\* signed calls on the derived accounts with full coprocessor replies,
\* amount 1 and a matching ciphertext, whole or truncated
TypicalDeposits ==
    {c \in DepositCalls :
        c.amount = 1 /\ c.ciphertext = 1 /\ [c EXCEPT !.cut = 0] \in DepositNominal}

TypicalWithdraws ==
    {c \in WithdrawCalls : c.amount = 1 /\ [c EXCEPT !.cut = 0] \in WithdrawNominal}

TypicalExecutes ==
    {c \in ExecuteCalls :
        c.amount = 1 /\ c.ciphertext = 1 /\ [c EXCEPT !.cut = 0] \in ExecuteNominal}

\* C21: the native entry point runs Initialize for tag 0, Deposit for tag 1,
\* Withdraw for tag 2 and DelegatedExecute for tag 3 on the bytes after the
\* tag (so the accounts and bytes of a Deposit re-tagged 2 are run as a
\* Withdraw of the same amount); an empty payload or any other tag returns
\* InvalidInstructionData with no operation invoked and nothing changed.
C21_DispatchByTag ==
    variant = "native" =>
        /\ \A c \in InitializeNominal :
              LET d == InitializeData(c.execution_account, c.cut) IN
              /\ process_instruction(World, c, <<INITIALIZE, d>>) =
                     process_initialize(World, c.executor, c.authority, c.is_signer, d)
              /\ \A t \in UnknownTags :
                     RejectedAtEntry(process_instruction(World, c, <<t, d>>))
              /\ RejectedAtEntry(process_instruction(World, c, <<>>))
        /\ \A c \in TypicalDeposits :
              LET d == DepositData(c.amount, c.ciphertext, c.cut) IN
              /\ process_instruction(World, c, <<DEPOSIT, d>>) =
                     process_deposit(World, c.vault, c.user, c.is_signer,
                                     c.user_deposit, d, c.reply)
              /\ process_instruction(World, c, <<WITHDRAW, d>>) =
                     process_withdraw(World, c.vault, c.user, c.is_signer,
                                      c.user_deposit, d, c.reply)
              /\ \A t \in UnknownTags :
                     RejectedAtEntry(process_instruction(World, c, <<t, d>>))
              /\ RejectedAtEntry(process_instruction(World, c, <<>>))
        /\ \A c \in TypicalWithdraws :
              LET d == WithdrawData(c.amount, c.cut) IN
              /\ process_instruction(World, c, <<WITHDRAW, d>>) =
                     process_withdraw(World, c.vault, c.user, c.is_signer,
                                      c.user_deposit, d, c.reply)
              /\ \A t \in UnknownTags :
                     RejectedAtEntry(process_instruction(World, c, <<t, d>>))
              /\ RejectedAtEntry(process_instruction(World, c, <<>>))
        /\ \A c \in TypicalExecutes :
              LET d == ExecuteData(c.intent_hash, c.signature, c.amount,
                                   c.ciphertext, c.cut)
              IN
              /\ process_instruction(World, c, <<EXECUTE_WITH_INTENT, d>>) =
                     process_execute_with_intent(World, c.executor, c.vault,
                         c.user_deposit, c.user, c.execution_account, c.is_signer,
                         d, c.reply)
              /\ \A t \in UnknownTags :
                     RejectedAtEntry(process_instruction(World, c, <<t, d>>))
              /\ RejectedAtEntry(process_instruction(World, c, <<>>))

\* a Deposit instruction that succeeds under tag 1, is run as a Withdraw
\* under tag 2 (a different outcome) and is refused under an unknown tag
C21_Witness ==
    /\ variant = "native"
    /\ \E c \in DepositNominal :
          LET d == DepositData(c.amount, c.ciphertext, c.cut) IN
          /\ process_instruction(World, c, <<DEPOSIT, d>>).res = "Ok"
          /\ process_instruction(World, c, <<WITHDRAW, d>>).res = "Ok"
          /\ process_instruction(World, c, <<WITHDRAW, d>>).lamports[VaultPda]
                 < lamports[VaultPda]
          /\ process_instruction(World, c, <<4, d>>).res = "InvalidInstructionData"

(***************************************************************************)
(* Participant record lifecycle                                            *)
(***************************************************************************)
\* the record at u's derived address loads: right length and is_initialized()
ActiveIn(d, u) == UserDepositUnpack(d[UserDepositPda(u)]).ok

\* the record exists after the outcome as it did before
Kept(o, u) ==
    /\ ActiveIn(o.data, u)
    /\ UserDepositPda(u) \in o.owned
    /\ o.lamports[UserDepositPda(u)] >= lamports[UserDepositPda(u)]

\* calls whose payload is whole and whose coprocessor replies are full
Heard(calls) == {c \in calls : c.reply = NoFailure /\ c.cut = 0}

DepositsHeard == Heard(DepositCalls)

WithdrawsHeard == Heard(WithdrawCalls)

ExecutesHeard == Heard(ExecuteCalls)

\* what a successful outcome may do to the records: an Active record is
\* kept; one that is not Active stays so unless it is that of `owner`
Lifecycle(o, owner) ==
    o.res = "Ok" =>
        \A u \in Wallets :
            IF ActiveIn(data, u) THEN Kept(o, u)
            ELSE ActiveIn(o.data, u) => u \in owner

\* a call against a record that is not Active
AgainstInactive(c) ==
    \E u \in Wallets : c.user_deposit = UserDepositPda(u) /\ ~ActiveIn(data, u)

\* C22: in the native program a participant record that is not Active makes
\* every Withdraw and DelegatedExecute against it fail and becomes Active
\* only by a successful Deposit signed by its owner; an Active record is
\* still Active, owned by the program and funded after every successful
\* Deposit, Withdraw and DelegatedExecute, whatever its balance.
C22_RecordLifecycle ==
    variant = "native" =>
        /\ \A c \in DepositsHeard :
              Lifecycle(RunDeposit(c), IF c.is_signer THEN {c.user} ELSE {})
        /\ \A c \in WithdrawsHeard :
              LET o == RunWithdraw(c) IN
              /\ Lifecycle(o, {})
              /\ AgainstInactive(c) => o.res # "Ok"
        /\ \A c \in ExecutesHeard :
              LET o == RunExecute(c) IN
              /\ Lifecycle(o, {})
              /\ AgainstInactive(c) => o.res # "Ok"

\* one participant has withdrawn everything and still has an Active record
\* holding an encrypted zero, while the other has never deposited
C22_Witness ==
    /\ variant = "native"
    /\ \E u, v \in Wallets :
          /\ ActiveIn(data, u)
          /\ IncoDecode(data[UserDepositPda(u)].balance) = 0
          /\ lamports[VaultPda] = RentExempt(0)
          /\ ~ActiveIn(data, v)
          /\ \A c \in WithdrawNominal : c.user = v => RunWithdraw(c).res # "Ok"

\* C23: in the native program the owner stored in the participant record at
\* the address derived from user U is U in every reachable state, so no
\* sequence of Deposit, Withdraw and DelegatedExecute calls changes an owner
\* once it is set.
C23_OwnerImmutable ==
    variant = "native" =>
        \A u \in Wallets :
            data[UserDepositPda(u)].len > 0 => data[UserDepositPda(u)].user = u

\* both participants hold a record that later deposits have built up to the
\* largest balance, each still naming its own owner
C23_Witness ==
    /\ variant = "native"
    /\ \A u \in Wallets :
          /\ ActiveIn(data, u)
          /\ data[UserDepositPda(u)].user = u
    /\ \E u \in Wallets : IncoDecode(data[UserDepositPda(u)].balance) = MaxBalance

\* every Deposit / DelegatedExecute call of the model with its amount set to 0
ZeroDeposits == {[x EXCEPT !.amount = 0] : x \in DepositCalls}

ZeroExecutes == {[x EXCEPT !.amount = 0] : x \in ExecuteCalls}

\* C24: in the native program a Deposit and a DelegatedExecute with
\* amount = 0 return an error whatever the ciphertext, the accounts presented
\* and the stored balance are, and the handler has then created no account,
\* moved no lamports and written no record.
C24_ZeroAmountRejected ==
    variant = "native" =>
        /\ \A c \in ZeroDeposits :
              LET o == RunDeposit(c) IN
              /\ o.res # "Ok"
              /\ NoMutation(o)
              /\ c \in DepositNominal => o.res = "InvalidArgument"
        /\ \A c \in ZeroExecutes :
              LET o == RunExecute(c) IN
              /\ o.res # "Ok"
              /\ NoMutation(o)

\* a participant with a positive balance and a funded vault: a signed
\* Deposit of 0 and an authorised DelegatedExecute of 0 with a matching
\* ciphertext are both refused
C24_Witness ==
    /\ variant = "native"
    /\ \E c \in DepositNominal :
          /\ c.amount = 0
          /\ c.ciphertext = 1
          /\ HasRecord(c.user)
          /\ Balance(c.user) > 0
          /\ RunDeposit(c).res = "InvalidArgument"
    /\ \E c \in ExecuteNominal :
          /\ c.amount = 0
          /\ c.ciphertext = 0
          /\ ExecuteAuthorized(c)
          /\ HasRecord(c.user)
          /\ Balance(c.user) > 0
          /\ RunExecute(c).res = "InsufficientFunds"

(***************************************************************************)
(* Coprocessor failures                                                    *)
(***************************************************************************)
\* the accounts as they are once the host has ended the instruction: the
\* handler's writes if it returned Ok, the accounts before the call otherwise
Observed(o) == IF o.res = "Ok" THEN AsWorld(o) ELSE World

\* the reply was consumed and refused: an error, and the participant record,
\* the vault and the caller's wallet are as before the call
AbortedClean(o, c, caller) ==
    /\ o.res = "InvalidAccountData"
    /\ Observed(o).data[c.user_deposit] = data[c.user_deposit]
    /\ Observed(o).lamports[c.vault] = lamports[c.vault]
    /\ Observed(o).lamports[WalletAddr(caller)] = lamports[WalletAddr(caller)]
    /\ Observed(o).owned = owned

\* calls some coprocessor reply of which is absent or short
Unheard(calls) == {c \in calls : c.reply # NoFailure}

DepositsUnheard == Unheard(DepositCalls)

WithdrawsUnheard == Unheard(WithdrawCalls)

ExecutesUnheard == Unheard(ExecuteCalls)

\* C25: in the native program a coprocessor reply that is absent or shorter
\* than 16 bytes is never absorbed: a Deposit, Withdraw or DelegatedExecute
\* either ends before the call whose reply is bad (and then behaves exactly
\* as with good replies) or returns an error, after which the participant
\* record, the vault's lamports and the caller's lamports are as before.
C25_ShortReplyAborts ==
    variant = "native" =>
        /\ \A c \in DepositsUnheard :
              LET o == RunDeposit(c) IN
              \/ AbortedClean(o, c, c.user)
              \/ o = RunDeposit([c EXCEPT !.reply = NoFailure])
        /\ \A c \in WithdrawsUnheard :
              LET o == RunWithdraw(c) IN
              \/ AbortedClean(o, c, c.user) /\ NoMutation(o)
              \/ o = RunWithdraw([c EXCEPT !.reply = NoFailure])
        /\ \A c \in ExecutesUnheard :
              LET o == RunExecute(c) IN
              \/ AbortedClean(o, c, c.execution_account) /\ NoMutation(o)
              \/ o = RunExecute([c EXCEPT !.reply = NoFailure])

\* a Deposit whose coprocessor reply is short fails after the handler has
\* already paid the vault, and a Withdraw fails on a short reply to its
\* subtraction with its solvency check passed
C25_Witness ==
    /\ variant = "native"
    /\ \E c \in DepositCalls :
          LET o == RunDeposit(c) IN
          /\ c.reply.failAt = 3
          /\ o.res = "InvalidAccountData"
          /\ o.lamports[VaultPda] > lamports[VaultPda]
          /\ RunDeposit([c EXCEPT !.reply = NoFailure]).res = "Ok"
    /\ \E c \in WithdrawCalls :
          /\ c.reply.failAt = 3
          /\ RunWithdraw(c).res = "InvalidAccountData"
          /\ RunWithdraw([c EXCEPT !.reply = NoFailure]).res = "Ok"

\* DelegatedExecute calls whose payload has lost bytes at its end, with any
\* combination of accounts presented, co-signature and intent signature
ExecuteTruncated == {[c EXCEPT !.cut = k] : c \in ExecuteAny, k \in Cuts}

\* C26: a native DelegatedExecute whose payload is truncated (its declared
\* signature or ciphertext does not fit the bytes that remain) returns
\* InvalidInstructionData whether or not the configuration, co-signature,
\* address-derivation and ownership checks would pass.
C26_TruncationBeforeSemanticChecks ==
    variant = "native" =>
        \A c \in ExecuteTruncated : RunExecute(c).res = "InvalidInstructionData"

(***************************************************************************)
(* Configuration record                                                    *)
(***************************************************************************)
\* the handler left the configuration record alone: same bytes, and no
\* account creation or record write aimed at its address
ConfigUntouched(o) ==
    /\ o.data[ExecutorPda] = data[ExecutorPda]
    /\ \A i \in 1..Len(o.effects) :
          o.effects[i].op \in {"create_account", "write_record"} =>
              o.effects[i].acct # ExecutorPda

\* calls that present the configuration address where the participant
\* record is expected
AtConfig(calls) == {[c EXCEPT !.user_deposit = ExecutorPda] : c \in calls}

DepositsNearConfig == DepositsHeard \cup AtConfig(TypicalDeposits)

WithdrawsNearConfig == WithdrawsHeard \cup AtConfig(TypicalWithdraws)

ExecutesNearConfig == ExecutesHeard \cup AtConfig(TypicalExecutes)

\* C27: in the native program every Deposit, Withdraw and DelegatedExecute,
\* successful or failing, whatever accounts it presents, leaves the delegate
\* configuration record exactly as it was; only Initialize writes it.
C27_ConfigWrittenOnlyByInitialize ==
    variant = "native" =>
        /\ \A c \in DepositsNearConfig : ConfigUntouched(RunDeposit(c))
        /\ \A c \in WithdrawsNearConfig : ConfigUntouched(RunWithdraw(c))
        /\ \A c \in ExecutesNearConfig : ConfigUntouched(RunExecute(c))

\* with the configuration written by Initialize, a Deposit, a Withdraw and a
\* DelegatedExecute can each succeed
C27_Witness ==
    /\ variant = "native"
    /\ ExecutorUnpack(data[ExecutorPda]).ok
    /\ \E c \in DepositNominal : RunDeposit(c).res = "Ok"
    /\ \E c \in WithdrawNominal : c.amount > 0 /\ RunWithdraw(c).res = "Ok"
    /\ \E c \in ExecuteNominal :
          LET o == RunExecute(c) IN
          /\ o.res = "Ok"
          /\ o.lamports[VaultPda] < lamports[VaultPda]
          /\ o.data[ExecutorPda] = data[ExecutorPda]

(***************************************************************************)
(* Solvency                                                                *)
(***************************************************************************)
\* sum of the decoded balances of the participant records that exist
SumOfBalances ==
    LET B(u) == IF data[UserDepositPda(u)].len > 0 THEN Balance(u) ELSE 0
    IN B(<<0, 1>>) + B(<<1, 1>>)

\* C28: in every reachable state of the native program the vault's lamports
\* are at least the sum of the decoded balances of all participant records,
\* and a Withdraw or DelegatedExecute succeeds only for an amount the user's
\* decoded balance covers (so that no user takes out more than that user
\* put in).
C28_Solvency ==
    variant = "native" =>
        /\ lamports[VaultPda] >= SumOfBalances
        /\ \A c \in WithdrawNominal :
              RunWithdraw(c).res = "Ok" => Balance(c.user) >= c.amount
        /\ \A c \in ExecuteNominal :
              RunExecute(c).res = "Ok" => Balance(c.user) >= c.amount

(***************************************************************************)
(* Plaintext balance arithmetic (Anchor lib.rs)                            *)
(***************************************************************************)
\* every value a u64 instruction argument can take
U64 == 0..U64_MAX

\* the stored plaintext balance of u, 0 while the record does not exist
Stored(d, u) ==
    IF d[UserDepositPda(u)].len > 0 THEN d[UserDepositPda(u)].balance ELSE 0

\* a successful call on `user` moved that user's balance by `delta` and no
\* other user's balance
MovedBy(o, user, delta) ==
    /\ Stored(o.data, user) = Stored(data, user) + delta
    /\ Stored(o.data, user) \in U64
    /\ \A v \in Wallets \ {user} : Stored(o.data, v) = Stored(data, v)

\* The plaintext balance is a u64 that never wraps: a deposit that would
\* take it above u64::MAX fails with one of `overflowErrors` and leaves it
\* as it was; a withdraw or execute_with_intent of more than the balance
\* fails (InsufficientFunds once the accounts are accepted); a successful
\* deposit adds exactly amount and a successful withdraw or execute takes
\* exactly amount off, so that the balance is always the user's deposits
\* minus the user's withdrawals and executions.
BalanceArithmetic(overflowErrors) ==
    variant = "anchor" =>
        /\ \A u \in Wallets : Stored(data, u) \in U64
        /\ \A x \in DepositNominal, a \in U64 :
              x.amount = 0 /\ x.ciphertext = 0 =>
                  LET c == [x EXCEPT !.amount = a]
                      o == RunAnchorDeposit(c)
                  IN
                  /\ Stored(data, c.user) + a > U64_MAX =>
                        /\ o.res \in overflowErrors
                        /\ Stored(o.data, c.user) = Stored(data, c.user)
                  /\ o.res = "Ok" => MovedBy(o, c.user, a)
        /\ \A x \in WithdrawNominal, a \in U64 :
              x.amount = 0 =>
                  LET c == [x EXCEPT !.amount = a]
                      o == RunAnchorWithdraw(c)
                  IN
                  /\ Stored(data, c.user) < a =>
                        /\ o.res # "Ok"
                        /\ HasRecord(c.user) /\ VaultPda \notin owned
                               => o.res = "InsufficientFunds"
                        /\ Stored(o.data, c.user) = Stored(data, c.user)
                  /\ o.res = "Ok" => MovedBy(o, c.user, 0 - a)
        /\ \A x \in ExecuteNominal, a \in U64 :
              x.amount = 0 /\ x.ciphertext = 0 =>
                  LET c == [x EXCEPT !.amount = a]
                      o == RunAnchorExecute(c)
                  IN
                  /\ Stored(data, c.user) < a =>
                        /\ o.res # "Ok"
                        /\ AnchorExecuteAccounts(World, c.executor, c.vault,
                                                 c.user_deposit, c.user) = "Ok"
                               => o.res = "InsufficientFunds"
                        /\ Stored(o.data, c.user) = Stored(data, c.user)
                  /\ o.res = "Ok" => MovedBy(o, c.user, 0 - a)

\* C29 as stated: in the Anchor plaintext variant the u64 balance never
\* wraps; a deposit that would take it above u64::MAX fails with
\* ArithmeticOverflow and leaves it unchanged; withdraw and
\* execute_with_intent fail with InsufficientFunds rather than take it below
\* zero; the balance is always deposits minus withdrawals and executions.
C29_OverflowReported == BalanceArithmetic({"ArithmeticOverflow"})

\* C29, amended: as stated, except that the deposit that would take the
\* balance above u64::MAX fails with the ledger's insufficient-funds error of
\* the transfer that precedes the addition, or with ArithmeticOverflow.
C29_BalanceNeverWraps ==
    BalanceArithmetic({"ArithmeticOverflow", "SystemInsufficientFunds"})

\* a participant with a positive plaintext balance: a deposit of u64::MAX is
\* refused, a withdrawal of one more than the balance is refused with
\* InsufficientFunds and a withdrawal of the whole balance succeeds
C29_Witness ==
    /\ variant = "anchor"
    /\ \E x \in DepositNominal :
          /\ Stored(data, x.user) = MaxBalance
          /\ RunAnchorDeposit([x EXCEPT !.amount = U64_MAX]).res # "Ok"
    /\ \E x \in WithdrawNominal :
          /\ Stored(data, x.user) > 0
          /\ RunAnchorWithdraw([x EXCEPT !.amount = Stored(data, x.user) + 1]).res
                 = "InsufficientFunds"
          /\ RunAnchorWithdraw([x EXCEPT !.amount = Stored(data, x.user)]).res = "Ok"

(***************************************************************************)
(* Invocations racing for one participant record.  The host runs each      *)
(* instruction as one uninterrupted unit, so a race is one invocation run  *)
(* to its end on the accounts the other one left.                          *)
(***************************************************************************)
WithdrawOn(w, c) ==
    process_instruction(w, c, <<WITHDRAW, WithdrawData(c.amount, c.cut)>>)

\* invocations that take funds out against the record of user u
TakingOut(u) ==
    {[op |-> "withdraw", call |-> c] : c \in {x \in WithdrawNominal : x.user = u}}
        \cup {[op |-> "execute", call |-> c] :
                  c \in {x \in ExecuteNominal : x.user = u /\ x.ciphertext = x.amount}}

TakeOutOn(w, i) ==
    IF i.op = "withdraw" THEN WithdrawOn(w, i.call) ELSE ExecuteOn(w, i.call)

\* C30: with native invocations serialized by the host, two Withdraw or
\* DelegatedExecute invocations against one participant record with amounts
\* a and b do not both succeed when the decoded balance is less than a + b.
C30_SerializedRaceSolvent ==
    variant = "native" =>
        \A u \in Wallets :
            HasRecord(u) =>
                \A i, j \in TakingOut(u) :
                    Balance(u) < i.call.amount + j.call.amount =>
                        LET o1 == TakeOutOn(World, i) IN
                        ~(o1.res = "Ok" /\ TakeOutOn(AsWorld(o1), j).res = "Ok")

(***************************************************************************)
(* What the program log tells about a stored balance.                      *)
(***************************************************************************)
DepositOn(w, c) ==
    process_instruction(w, c, <<DEPOSIT, DepositData(c.amount, c.ciphertext, c.cut)>>)

\* the log a call leaves when run on the accounts w
DepositLog(w, c) ==
    deposit_msgs(w, DepositOn(w, c), c.vault, c.user, c.is_signer, c.user_deposit,
                 DepositData(c.amount, c.ciphertext, c.cut))

WithdrawLog(w, c) ==
    withdraw_msgs(w, WithdrawOn(w, c), c.user_deposit, WithdrawData(c.amount, c.cut))

ExecuteLog(w, c) ==
    execute_with_intent_msgs(w, ExecuteOn(w, c), c.user_deposit, c.user,
        ExecuteData(c.intent_hash, c.signature, c.amount, c.ciphertext, c.cut))

\* handles a participant record can hold
BalanceHandles == {IncoHandle(v) : v \in 0..MaxBalance}

\* the accounts with the balance field of u's record replaced by handle h
WithBalance(u, h) ==
    [World EXCEPT !.data[UserDepositPda(u)].balance = h]

\* C31: in the native program the log of a Deposit, Withdraw or
\* DelegatedExecute does not depend on the stored balance field: the same
\* call, run on accounts that differ only in the balance handle of the
\* participant's record and ending with the same result, leaves the same log.
C31_LogIndependentOfBalance ==
    variant = "native" =>
        \A u \in Wallets :
            ActiveIn(data, u) =>
                \A h \in BalanceHandles :
                    LET w2 == WithBalance(u, h) IN
                    /\ \A c \in DepositNominal :
                          (c.user = u /\ DepositOn(World, c).res = DepositOn(w2, c).res)
                              => DepositLog(World, c) = DepositLog(w2, c)
                    /\ \A c \in WithdrawNominal :
                          (c.user = u /\ WithdrawOn(World, c).res = WithdrawOn(w2, c).res)
                              => WithdrawLog(World, c) = WithdrawLog(w2, c)
                    /\ \A c \in ExecuteNominal :
                          (c.user = u /\ ExecuteOn(World, c).res = ExecuteOn(w2, c).res)
                              => ExecuteLog(World, c) = ExecuteLog(w2, c)

(***************************************************************************)
(* Account codec round trip.                                               *)
(***************************************************************************)
\* C32: in the native program, unpack_from_slice of a buffer of the layout
\* size (65 bytes for the configuration, 48 for the participant record)
\* that a record value was packed into returns that value, for every value
\* including the uninitialized ones; unpack_from_slice of a shorter buffer
\* returns InvalidAccountData.
C32_CodecRoundTrip ==
    /\ packed.kind = "Executor" =>
          LET r == Executor_unpack_from_slice(dst) IN
          IF Len(dst) = ExecutorLEN
          THEN r = [res |-> "Ok", v |-> packed.v]
          ELSE r = [res |-> "InvalidAccountData"]
    /\ packed.kind = "UserDeposit" =>
          LET r == UserDeposit_unpack_from_slice(dst) IN
          IF Len(dst) = UserDepositLEN
          THEN r = [res |-> "Ok", v |-> packed.v]
          ELSE r = [res |-> "InvalidAccountData"]

\* a participant record with a balance of three bytes and a non-default
\* owner was packed into a 48-byte buffer, low byte of the balance first
C32_Witness ==
    /\ packed.kind = "UserDeposit"
    /\ packed.v.balance > 65535
    /\ packed.v.user \in Wallets
    /\ Len(dst) = UserDepositLEN
    /\ dst[33] = 3
    /\ dst[35] = 1

(***************************************************************************)
(* What a successful Initialize leaves.                                    *)
(***************************************************************************)
\* C33: in the native program, whenever Initialize returns success the
\* configuration record afterwards decodes to exactly the receiver given in
\* the payload, the authority that signed, and initialized = true, whatever
\* the configuration address held before.
C33_InitializeResult ==
    variant = "native" =>
        \A c \in InitializeCalls :
            LET o == RunInitialize(c) IN
            o.res = "Ok" =>
                ExecutorUnpack(o.data[ExecutorPda]) =
                    [ok |-> TRUE, err |-> "Ok",
                     execution_account |-> c.execution_account,
                     authority |-> c.authority]

(***************************************************************************)
(* The vault debit.                                                        *)
(***************************************************************************)
\* C34: in the native program, whenever a Withdraw or DelegatedExecute
\* passes its solvency check for amount, the vault holds at least amount
\* lamports, so `vault lamports -= amount` never goes below zero.
C34_VaultDebitNeverUnderflows ==
    variant = "native" =>
        /\ \A c \in WithdrawsHeard : RunWithdraw(c).res # "LamportUnderflow"
        /\ \A c \in ExecutesHeard : RunExecute(c).res # "LamportUnderflow"

(***************************************************************************)
(* Frame: the records of the other participants.                           *)
(***************************************************************************)
\* the record account of every participant other than u is, in outcome o,
\* as it is now
OthersUntouched(o, u) ==
    \A v \in Wallets \ {u} :
        /\ o.data[UserDepositPda(v)] = data[UserDepositPda(v)]
        /\ o.lamports[UserDepositPda(v)] = lamports[UserDepositPda(v)]
        /\ (UserDepositPda(v) \in o.owned) = (UserDepositPda(v) \in owned)

\* C35: in the native program a Deposit or Withdraw issued by user U, or a
\* DelegatedExecute naming U, leaves the participant record of every other
\* user as it was, whether it succeeds or fails and whichever record
\* account it presents.
C35_OtherRecordsUnchanged ==
    variant = "native" =>
        /\ \A c \in DepositsHeard : OthersUntouched(RunDeposit(c), c.user)
        /\ \A c \in WithdrawsHeard : OthersUntouched(RunWithdraw(c), c.user)
        /\ \A c \in ExecutesHeard : OthersUntouched(RunExecute(c), c.user)

\* two participants hold Active records; a Withdraw by one of them succeeds
\* on their own record and the same Withdraw presenting the other's record
\* fails
C35_Witness ==
    /\ variant = "native"
    /\ \E c \in WithdrawsHeard :
          /\ c.user_deposit = UserDepositPda(c.user)
          /\ \A v \in Wallets : ActiveIn(data, v)
          /\ RunWithdraw(c).res = "Ok"
          /\ \E v \in Wallets \ {c.user} :
                RunWithdraw([c EXCEPT !.user_deposit = UserDepositPda(v)]).res # "Ok"

(***************************************************************************)
(* DelegatedExecute and the configuration it reads.                        *)
(***************************************************************************)
Configured == ExecutorUnpack(data[ExecutorPda])

\* the lamports an outcome leaves differ from the present ones at most in
\* the vault and in the wallet of receiver r
PaidOnlyTo(o, r) ==
    \A a \in Addrs \ {VaultPda, WalletAddr(r)} : o.lamports[a] = lamports[a]

\* what every DelegatedExecute with a whole payload and full coprocessor
\* replies, and every Initialize, does in the present state
ExecuteFollowsConfig ==
    variant = "native" =>
        /\ \A c \in ExecutesHeard :
              LET o == RunExecute(c) IN
              IF Configured.ok
              THEN o.res = "Ok" =>
                       /\ c.execution_account = Configured.execution_account
                       /\ PaidOnlyTo(o, Configured.execution_account)
              ELSE o.res # "Ok" /\ o.lamports = lamports
        /\ Configured.ok =>
              \A c \in InitializeCalls :
                  LET o == RunInitialize(c) IN
                  o.res = "Ok" =>
                      ExecutorUnpack(o.data[ExecutorPda]).execution_account
                          = c.execution_account

\* a step that changes the configuration record is a successful Initialize
\* and leaves the receiver of its payload in the record
ConfigSetByInitialize ==
    (variant = "native" /\ data'[ExecutorPda] # data[ExecutorPda]) =>
        \E c \in InitializeCalls :
            LET o == RunInitialize(c) IN
            /\ o.res = "Ok"
            /\ data' = o.data
            /\ lamports' = o.lamports
            /\ ExecutorUnpack(data'[ExecutorPda]).ok
            /\ ExecutorUnpack(data'[ExecutorPda]).execution_account
                   = c.execution_account

\* C36: in the native program, while the configuration record does not
\* decode (account absent, empty, or initialized flag not set) every
\* DelegatedExecute fails and moves no funds; the record changes only by a
\* successful Initialize, which leaves its receiver there, and every
\* successful DelegatedExecute pays the receiver the record holds, that of
\* the most recent successful Initialize.
C36_NoExecuteBeforeInitialize ==
    [](ExecuteFollowsConfig) /\ [][ConfigSetByInitialize]_vars

\* the configuration has been initialized and a DelegatedExecute to the
\* configured receiver succeeds while the same call to another receiver fails
C36_Witness ==
    /\ variant = "native"
    /\ Configured.ok
    /\ \E c \in ExecuteNominal :
          /\ RunExecute(c).res = "Ok"
          /\ c.execution_account = Configured.execution_account
          /\ \E r \in Wallets \ {c.execution_account} :
                RunExecute([c EXCEPT !.execution_account = r]).res # "Ok"

(***************************************************************************)
(* Sandbox counter.                                                        *)
(***************************************************************************)
\* the u64 the counter account stores
CounterValue(c) == from_le_bytes(Slice(c.data, 0, 8))

====
